---- MODULE Spec2Model ----
(***************************************************************************)
(* Review pipeline of code-dojo: the LangGraph review workflow of          *)
(* services/review_orchestrator.py, its three entry points                 *)
(* (orchestrate_review, orchestrate_review_streaming,                      *)
(* orchestrate_review_streaming_generator), the fallback                   *)
(* AgenticReviewService.run_full_review, and the two tables the workflow   *)
(* writes (ai_feedbacks, architectural_analyses).                          *)
(***************************************************************************)
EXTENDS Integers, Sequences, FiniteSets, TLC

\* ------------------------------------------------------------------ bounds
MaxRuns == 2            \* review requests made one after the other
MaxFiles == 5           \* largest number of file records of a change set
MaxSubmissions == 1     \* submissions under review

\* ------------------------------------------------------- program constants
SMALL_PR_FILES == 5                 \* len(pr_files) < 5
W_initialize == 5
W_route_analysis == 3
W_run_basic_review == 50
W_run_arch_analysis == 20
W_enrich_feedback == 7
W_synthesize == 10
W_save_results == 5

SubmissionIds == 1..MaxSubmissions
Fns == {"orchestrate_review", "orchestrate_review_streaming",
        "orchestrate_review_streaming_generator"}
StreamingFns == {"orchestrate_review_streaming",
                 "orchestrate_review_streaming_generator"}
GENERATOR == "orchestrate_review_streaming_generator"
\* rubric argument: None, {} (falsy dict) or a rubric dictionary
Rubrics == {"None", "empty", "rubric"}

END == "__end__"
NodeNames == {"initialize", "route_analysis", "run_basic_review",
              "run_arch_analysis", "enrich_feedback", "synthesize",
              "save_results"}

\* report bodies
NO_CONTENT == ""
NO_RUBRIC_CONTENT == "No rubric available for detailed review."
BASE_FEEDBACK == "base_feedback"
BASE_WITH_ARCH == "base_feedback + architectural sections"
SYNTH_ERROR_CONTENT == "Error generating feedback. Please try again."
DEMO_FEEDBACK == "**AI Feedback (Demo Mode)**"
FULL_REVIEW_FEEDBACK == "run_full_review feedback"

VARIABLES
    config,              \* Config.ARCH_ANALYSIS_ENABLED, ARCH_SKIP_SMALL_PRS, ANTHROPIC_API_KEY
    LANGGRAPH_AVAILABLE, \* the langgraph import succeeded
    call,                \* arguments of the entry point being served
    pc,                  \* position of the entry point
    node,                \* next graph node
    state,               \* ReviewState
    trace,               \* graph nodes executed in this run, in order
    basic_path,          \* analysis_path right after run_basic_review
    events,              \* progress events handed to the consumer
    pending,             \* events produced for a node and not yet pulled
    last_emitted_event_count,
    current_progress,    \* running weight sum of the streaming loop
    result,              \* what the entry point returned
    consumer,            \* consumer of the generator: reading or stopped
    ai_feedbacks,        \* table ai_feedbacks
    arch_analyses,       \* table architectural_analyses
    runs,                \* entry-point calls made so far
    op,                  \* function of the analyzer or of the routes being called
    arg,                 \* its arguments
    ret                  \* what it returned

vars == <<config, LANGGRAPH_AVAILABLE, call, pc, node, state, trace, basic_path,
          events, pending, last_emitted_event_count, current_progress, result,
          consumer, ai_feedbacks, arch_analyses, runs, op, arg, ret>>

\* the variables of a call of one function outside the review graph
call_vars == <<op, arg, ret>>

\* ------------------------------------------------------------ ReviewState
ReviewState(c) ==
    [ rubric            |-> c.rubric,
      pr_metadata       |-> c.pr_metadata,
      pr_files          |-> c.pr_files,
      basic_results     |-> FALSE,      \* approach_detection .. alternatives set
      arch_impact       |-> FALSE,      \* arch_components .. arch_impact set
      arch_diagrams     |-> FALSE,
      progress_events   |-> <<>>,
      final_content     |-> NO_CONTENT,
      errors            |-> <<>>,
      analysis_path     |-> "enhanced" ]

NoCall == [fn |-> "none", submission_id |-> 0, rubric |-> "None",
           pr_metadata |-> FALSE, pr_files |-> 0]
NoResult == [status |-> "none"]

\* ------------------------------------------------------------------ nodes
initialize_review(s) ==
    LET s1 == [s EXCEPT !.analysis_path = "enhanced"]
    IN  IF ~s1.pr_metadata THEN [s1 EXCEPT !.analysis_path = "simple"] ELSE s1

route_analysis_type_reset(s) ==
    IF ~config.ARCH_ANALYSIS_ENABLED
    THEN [s EXCEPT !.analysis_path = "simple"]
    ELSE IF config.ARCH_SKIP_SMALL_PRS /\ s.pr_files # 0 /\ s.pr_files < SMALL_PR_FILES
         THEN [s EXCEPT !.analysis_path = "simple"]
         ELSE [s EXCEPT !.analysis_path = "enhanced"]

route_analysis_type(s) ==
    IF ~config.ARCH_ANALYSIS_ENABLED
    THEN [s EXCEPT !.analysis_path = "simple"]
    ELSE IF config.ARCH_SKIP_SMALL_PRS /\ s.pr_files # 0 /\ s.pr_files < SMALL_PR_FILES
         THEN [s EXCEPT !.analysis_path = "simple"]
         ELSE s

route_decision(s) == s.analysis_path

\* Parameters run_full_review declares, and the keywords run_basic_review passes.
RunFullReviewParams == {"challenge_md", "diff_content", "rubric"}
BasicReviewKeywords == {"challenge_md", "diff_content", "rubric", "progress_callback"}

run_basic_review(s) ==
    IF s.rubric # "rubric"
    THEN [s EXCEPT !.final_content = NO_RUBRIC_CONTENT, !.analysis_path = "simple"]
    ELSE IF BasicReviewKeywords \subseteq RunFullReviewParams
         THEN [s EXCEPT !.basic_results = TRUE]
         ELSE [s EXCEPT !.errors = Append(@, "Basic review error")]

check_for_arch_analysis_always(s) == "enhanced"

check_for_arch_analysis(s) == s.analysis_path

ArchOutcomes == {"ok", "analyzer_raises", "diagrams_raise"}

run_architectural_analysis_keeps_path(s, outcome) ==
    CASE outcome = "ok" ->
           [s EXCEPT !.arch_impact = TRUE, !.arch_diagrams = TRUE]
      [] outcome = "analyzer_raises" ->
           [s EXCEPT !.errors = Append(@, "Architectural analysis error")]
      [] outcome = "diagrams_raise" ->
           [s EXCEPT !.arch_impact = TRUE,
                     !.errors = Append(@, "Architectural analysis error")]

run_architectural_analysis(s, outcome) ==
    CASE outcome = "ok" ->
           [s EXCEPT !.arch_impact = TRUE, !.arch_diagrams = TRUE]
      [] outcome = "analyzer_raises" ->
           [s EXCEPT !.errors = Append(@, "Architectural analysis error"),
                     !.analysis_path = "simple"]
      [] outcome = "diagrams_raise" ->
           [s EXCEPT !.arch_impact = TRUE,
                     !.errors = Append(@, "Architectural analysis error"),
                     !.analysis_path = "simple"]

enrich_with_architecture(s) == s

synthesize_final_feedback(s) ==
    IF s.rubric = "None"
    THEN [s EXCEPT !.errors = Append(@, "Synthesis error"),
                   !.final_content = SYNTH_ERROR_CONTENT]
    ELSE IF s.analysis_path = "enhanced" /\ s.arch_impact
         THEN [s EXCEPT !.final_content = BASE_WITH_ARCH]
         ELSE [s EXCEPT !.final_content = BASE_FEEDBACK]


\* ----------------------------------------------------------------- tables
\* A row of ai_feedbacks: id, submission_id (unique), content; created_at is the
\* run that inserted it and written_by the run that last committed it.
AIRowsFor(rows, sid) == {r \in rows : r.submission_id = sid}
UniqueSubmission(rows) ==
    \A r1, r2 \in rows : r1.submission_id = r2.submission_id => r1 = r2

\* AIFeedback(submission_id=...) without the lookup: always a new row.
UpsertInsertsAlways(rows, sid, run, content) ==
    rows \cup {[id |-> Cardinality(rows) + 1, submission_id |-> sid,
                content |-> content, created_at |-> run, written_by |-> run]}

\* query.filter_by(submission_id).first(), else a new row; then the fields are set.
Upsert(rows, sid, run, content) ==
    IF AIRowsFor(rows, sid) # {}
    THEN LET r == CHOOSE x \in AIRowsFor(rows, sid) : TRUE
         IN  (rows \ {r}) \cup {[r EXCEPT !.content = content, !.written_by = run]}
    ELSE rows \cup {[id |-> Cardinality(rows) + 1, submission_id |-> sid,
                     content |-> content, created_at |-> run, written_by |-> run]}

DbOutcomes == {"ok", "commit_raises", "rollback_raises"}

\* save_review_results: the session's pending rows are committed, or the commit
\* raises and the handler records the error and rolls back; the rollback itself
\* is outside the try block.
save_review_results(s, sid, run, ai, arch, outcome) ==
    LET ai2   == Upsert(ai, sid, run, s.final_content)
        arch2 == IF s.analysis_path = "enhanced" /\ s.arch_impact
                 THEN Upsert(arch, sid, run, "impact")
                 ELSE arch
        integrity == UniqueSubmission(ai2) /\ UniqueSubmission(arch2)
    IN  IF outcome = "ok" /\ integrity
        THEN [state |-> s, ai |-> ai2, arch |-> arch2, raised |-> FALSE]
        ELSE [state |-> [s EXCEPT !.errors = Append(@,
                            IF outcome = "ok" THEN "Save error: UNIQUE constraint failed"
                                              ELSE "Save error: database error")],
              ai |-> ai, arch |-> arch,
              raised |-> (outcome = "rollback_raises")]

\* ------------------------------------------------------------- the graph
\* create_review_graph: the edges.
NextNode(n, s) ==
    CASE n = "initialize"        -> "route_analysis"
      [] n = "route_analysis"    -> IF route_decision(s) = "simple"
                                    THEN "run_basic_review" ELSE "run_basic_review"
      [] n = "run_basic_review"  -> IF check_for_arch_analysis(s) = "simple"
                                    THEN "synthesize" ELSE "run_arch_analysis"
      [] n = "run_arch_analysis" -> "enrich_feedback"
      [] n = "enrich_feedback"   -> "synthesize"
      [] n = "synthesize"        -> "save_results"
      [] n = "save_results"      -> END

\* What the environment decides while a node runs.
Outcomes(n) ==
    CASE n = "run_arch_analysis" -> ArchOutcomes
      [] n = "save_results"      -> DbOutcomes
      [] OTHER                   -> {"ok"}

\* One node on the state and the tables.
ExecNode(n, s, sid, run, ai, arch, outcome) ==
    LET plain(s2) == [state |-> s2, ai |-> ai, arch |-> arch, raised |-> FALSE]
    IN  CASE n = "initialize"        -> plain(initialize_review(s))
          [] n = "route_analysis"    -> plain(route_analysis_type(s))
          [] n = "run_basic_review"  -> plain(run_basic_review(s))
          [] n = "run_arch_analysis" -> plain(run_architectural_analysis(s, outcome))
          [] n = "enrich_feedback"   -> plain(enrich_with_architecture(s))
          [] n = "synthesize"        -> plain(synthesize_final_feedback(s))
          [] n = "save_results"      -> save_review_results(s, sid, run, ai, arch, outcome)

\* ------------------------------------------------------------- progress
Weight(n) ==
    CASE n = "initialize"        -> W_initialize
      [] n = "route_analysis"    -> W_route_analysis
      [] n = "run_basic_review"  -> W_run_basic_review
      [] n = "run_arch_analysis" -> W_run_arch_analysis
      [] n = "enrich_feedback"   -> W_enrich_feedback
      [] n = "synthesize"        -> W_synthesize
      [] n = "save_results"      -> W_save_results

total_weight ==
    W_initialize + W_route_analysis + W_run_basic_review + W_run_arch_analysis
    + W_enrich_feedback + W_synthesize + W_save_results

RECURSIVE Pow2Mod(_, _)
Pow2Mod(e, m) == IF e = 0 THEN 1 % m ELSE (2 * Pow2Mod(e - 1, m)) % m

RECURSIVE Pow2(_)
Pow2(e) == IF e = 0 THEN 1 ELSE 2 * Pow2(e - 1)

\* floor(log2(n)) for n >= 1
RECURSIVE Log2(_)
Log2(n) == IF n < 2 THEN 0 ELSE 1 + Log2(n \div 2)

\* the number of halvings h with 2^-h <= n/t < 2^-(h-1), for 0 < n < t
RECURSIVE Halvings(_, _)
Halvings(n, t) == IF n >= t THEN 0 ELSE 1 + Halvings(2 * n, t)

\* int((n / t) * 100) in exact integer arithmetic.
ExactPercent(n, t) == (n * 100) \div t

\* int((n / t) * 100) as Python computes it with t = 100: n / t is rounded to
\* the nearest binary64 (53-bit significand, ties to even), the product with 100
\* is rounded again and int() truncates.  With t = 100 the exact product is
\* n + d / 2^e, where d (|d| <= t/2) is t times the signed rounding error of the
\* significand of n / t and e = 52 + h; it rounds below n exactly when d < 0 and
\* |d| exceeds half a unit in the last place below n.
FloatPercent(n, t) ==
    IF n = 0 THEN 0
    ELSE IF n >= t THEN ExactPercent(n, t)
    ELSE LET h    == Halvings(n, t)
             e    == 52 + h
             rem  == (n * Pow2Mod(e, t)) % t
             low  == (((n * Pow2Mod(e, 2 * t)) % (2 * t)) - rem) \div t
             down == (2 * rem < t) \/ (2 * rem = t /\ low % 2 = 0)
             d    == IF down THEN 0 - rem ELSE t - rem
             j    == Log2(n)
             half == IF n = Pow2(j) THEN Pow2(j + h - 2) ELSE Pow2(j + h - 1)
         IN  IF d < 0 /\ (0 - d) > half THEN n - 1 ELSE n

\* "progress": int((current_progress / total_weight) * 100)
ProgressPercent(cp) == FloatPercent(cp, total_weight)

NodeEvent(n, cp) == [step |-> n, progress |-> ProgressPercent(cp), status |-> "running"]
CompleteEvent == [step |-> "complete", progress |-> 100, status |-> "complete"]
ErrorEvent == [step |-> "error", progress |-> 0, status |-> "error"]


\* ---------------------------------------------------------------- results
EvaluationKeys == {"approach_detection", "architecture", "universal_criteria",
                   "approach_criteria", "tests", "security"}

\* The dict the graph path returns (built from final_state).
GraphResult(s) ==
    [status |-> "returned",
     value  |-> [content           |-> s.final_content,
                 detected_approach |-> IF s.basic_results THEN "approach_id" ELSE "None",
                 evaluation        |-> EvaluationKeys \cup {"arch_analysis"},
                 alternatives      |-> IF s.basic_results THEN "alternatives" ELSE "None",
                 line_references   |-> <<>>,
                 errors            |-> s.errors]]

LlmOutcomes == {"ok", "raises"}

\* AgenticReviewService.run_full_review(challenge_md, diff_content, rubric)
run_full_review(rubric, llm) ==
    IF ~config.ANTHROPIC_API_KEY
    THEN [status |-> "returned",
          value  |-> [content           |-> DEMO_FEEDBACK,
                      detected_approach |-> "None",
                      evaluation        |-> {},
                      alternatives      |-> "None",
                      line_references   |-> <<>>]]
    ELSE IF rubric = "None" \/ llm = "raises"
         THEN [status |-> "raised"]
         ELSE [status |-> "returned",
               value  |-> [content           |-> FULL_REVIEW_FEEDBACK,
                           detected_approach |-> "approach_id",
                           evaluation        |-> EvaluationKeys,
                           alternatives      |-> "alternatives",
                           line_references   |-> <<>>]]

\* ------------------------------------------------------------------- Init
Init ==
    /\ config \in [ARCH_ANALYSIS_ENABLED : BOOLEAN, ARCH_SKIP_SMALL_PRS : BOOLEAN,
                   ANTHROPIC_API_KEY : BOOLEAN]
    /\ LANGGRAPH_AVAILABLE \in BOOLEAN
    /\ call = NoCall
    /\ pc = "idle"
    /\ node = "initialize"
    /\ state = ReviewState(NoCall)
    /\ trace = <<>>
    /\ basic_path = "unset"
    /\ events = <<>>
    /\ pending = <<>>
    /\ last_emitted_event_count = 0
    /\ current_progress = 0
    /\ result = NoResult
    /\ consumer = "none"
    /\ ai_feedbacks = {}
    /\ arch_analyses = {}
    /\ runs = 0
    /\ op = "none"
    /\ arg = <<>>
    /\ ret = <<>>

\* ---------------------------------------------------------------- actions
\* A caller invokes one of the three entry points; the initial ReviewState is
\* built, or the fallback is taken when langgraph is missing.
Start ==
    /\ pc = "idle"
    /\ runs < MaxRuns
    /\ \E fn \in Fns, sid \in SubmissionIds, rubric \in Rubrics,
          meta \in BOOLEAN, files \in 0..MaxFiles :
         LET c == [fn |-> fn, submission_id |-> sid, rubric |-> rubric,
                   pr_metadata |-> meta, pr_files |-> files]
         IN  /\ call' = c
             /\ state' = ReviewState(c)
             /\ consumer' = IF fn = GENERATOR THEN "reading" ELSE "none"
    /\ runs' = runs + 1
    /\ pc' = IF LANGGRAPH_AVAILABLE THEN "graph" ELSE "fallback"
    /\ node' = "initialize"
    /\ trace' = <<>>
    /\ basic_path' = "unset"
    /\ events' = <<>>
    /\ pending' = <<>>
    /\ last_emitted_event_count' = 0
    /\ current_progress' = 0
    /\ result' = NoResult
    /\ UNCHANGED <<config, LANGGRAPH_AVAILABLE, ai_feedbacks, arch_analyses>>
    /\ UNCHANGED call_vars

\* One iteration of graph.stream / one node of graph.invoke: the node runs; a
\* streaming caller adds its weight and emits the node's event.  An exception
\* that leaves the node ends the stream in the entry point's except clause.
RunNode(emit) ==
    \E o \in Outcomes(node) :
      LET r == ExecNode(node, state, call.submission_id, runs,
                        ai_feedbacks, arch_analyses, o)
      IN  /\ state' = r.state
          /\ ai_feedbacks' = r.ai
          /\ arch_analyses' = r.arch
          /\ trace' = Append(trace, node)
          /\ basic_path' = IF node = "run_basic_review"
                           THEN r.state.analysis_path ELSE basic_path
          /\ IF r.raised
             THEN /\ pc' = "except"
                  /\ events' = IF call.fn = GENERATOR
                               THEN Append(events, ErrorEvent) ELSE events
                  /\ UNCHANGED <<node, current_progress, pending,
                                 last_emitted_event_count>>
             ELSE /\ pc' = "graph"
                  /\ node' = NextNode(node, r.state)
                  /\ current_progress' = IF emit THEN current_progress + Weight(node)
                                         ELSE current_progress
                  /\ events' = IF emit
                               THEN Append(events,
                                      NodeEvent(node, current_progress + Weight(node)))
                               ELSE events
                  /\ pending' = IF call.fn = GENERATOR
                                THEN SubSeq(r.state.progress_events,
                                            last_emitted_event_count + 1,
                                            Len(r.state.progress_events))
                                ELSE pending
                  /\ last_emitted_event_count' =
                        IF call.fn = GENERATOR THEN Len(r.state.progress_events)
                        ELSE last_emitted_event_count

\* orchestrate_review and orchestrate_review_streaming: the next node.
GraphStep ==
    /\ pc = "graph"
    /\ call.fn # GENERATOR
    /\ node # END
    /\ RunNode(call.fn \in StreamingFns)
    /\ UNCHANGED <<config, LANGGRAPH_AVAILABLE, call, result, consumer, runs>>
    /\ UNCHANGED call_vars

\* ... the graph has ended: the completion event and the result dict.
GraphEnd ==
    /\ pc = "graph"
    /\ call.fn # GENERATOR
    /\ node = END
    /\ events' = IF call.fn \in StreamingFns THEN Append(events, CompleteEvent) ELSE events
    /\ result' = GraphResult(state)
    /\ pc' = "done"
    /\ UNCHANGED <<config, LANGGRAPH_AVAILABLE, call, node, state, trace, basic_path,
                   pending, last_emitted_event_count, current_progress, consumer,
                   ai_feedbacks, arch_analyses, runs>>
    /\ UNCHANGED call_vars

\* ... the except clause: the error event, then run_full_review.
ExceptFallback ==
    /\ pc = "except"
    /\ call.fn # GENERATOR
    /\ events' = IF call.fn \in StreamingFns THEN Append(events, ErrorEvent) ELSE events
    /\ \E llm \in LlmOutcomes : result' = run_full_review(call.rubric, llm)
    /\ pc' = "done"
    /\ UNCHANGED <<config, LANGGRAPH_AVAILABLE, call, node, state, trace, basic_path,
                   pending, last_emitted_event_count, current_progress, consumer,
                   ai_feedbacks, arch_analyses, runs>>
    /\ UNCHANGED call_vars

\* ... langgraph is missing: run_full_review, no event.
Fallback ==
    /\ pc = "fallback"
    /\ call.fn # GENERATOR
    /\ \E llm \in LlmOutcomes : result' = run_full_review(call.rubric, llm)
    /\ pc' = "done"
    /\ UNCHANGED <<config, LANGGRAPH_AVAILABLE, call, node, state, trace, basic_path,
                   events, pending, last_emitted_event_count, current_progress,
                   consumer, ai_feedbacks, arch_analyses, runs>>
    /\ UNCHANGED call_vars

\* The generator runs every remaining node before it hands over its first event.
GenNodeBuffered ==
    /\ pc = "graph"
    /\ node # END
    /\ \E o \in Outcomes(node) :
         LET r  == ExecNode(node, state, call.submission_id, runs,
                            ai_feedbacks, arch_analyses, o)
             n2 == NextNode(node, r.state)
             r2 == IF n2 # END /\ ~r.raised
                   THEN ExecNode(n2, r.state, call.submission_id, runs,
                                 r.ai, r.arch, CHOOSE x \in Outcomes(n2) : TRUE)
                   ELSE r
         IN  /\ state' = r2.state
             /\ ai_feedbacks' = r2.ai
             /\ arch_analyses' = r2.arch
             /\ trace' = IF n2 # END /\ ~r.raised THEN trace \o <<node, n2>>
                         ELSE Append(trace, node)
             /\ node' = IF n2 # END /\ ~r.raised THEN NextNode(n2, r2.state) ELSE n2
             /\ pc' = IF r2.raised THEN "except" ELSE "graph"
             /\ events' = Append(events, NodeEvent(node, current_progress + Weight(node)))
             /\ current_progress' = current_progress + Weight(node)
             /\ UNCHANGED <<basic_path, pending, last_emitted_event_count, result>>

\* The generator resumed inside the stream loop: the next node runs and its
\* event is yielded.
GenNode ==
    /\ pc = "graph"
    /\ node # END
    /\ RunNode(TRUE)
    /\ UNCHANGED result

\* The stream is exhausted: the completion event is yielded.
GenComplete ==
    /\ pc = "graph"
    /\ node = END
    /\ events' = Append(events, CompleteEvent)
    /\ result' = [status |-> "computed", value |-> GraphResult(state).value]
    /\ pc' = "result"
    /\ UNCHANGED <<node, state, trace, basic_path, pending, last_emitted_event_count,
                   current_progress, ai_feedbacks, arch_analyses>>

\* ("RESULT", result) is yielded; the consumer takes it and stops iterating.
GenResult ==
    /\ pc = "result"
    /\ result' = [result EXCEPT !.status = "returned"]
    /\ pc' = "done"
    /\ UNCHANGED <<node, state, trace, basic_path, events, pending,
                   last_emitted_event_count, current_progress, ai_feedbacks,
                   arch_analyses>>

\* langgraph is missing: run_full_review, then the completion event is yielded.
GenFallback ==
    /\ pc = "fallback"
    /\ \E llm \in LlmOutcomes :
         LET r == run_full_review(call.rubric, llm)
         IN  IF r.status = "raised"
             THEN /\ result' = r
                  /\ pc' = "done"
                  /\ events' = events
             ELSE /\ result' = [r EXCEPT !.status = "computed"]
                  /\ pc' = "result"
                  /\ events' = Append(events, CompleteEvent)
    /\ UNCHANGED <<node, state, trace, basic_path, pending, last_emitted_event_count,
                   current_progress, ai_feedbacks, arch_analyses>>

\* Resumed after the error event: run_full_review, then ("RESULT", result).
GenExcept ==
    /\ pc = "except"
    /\ \E llm \in LlmOutcomes : result' = run_full_review(call.rubric, llm)
    /\ pc' = "done"
    /\ UNCHANGED <<node, state, trace, basic_path, events, pending,
                   last_emitted_event_count, current_progress, ai_feedbacks,
                   arch_analyses>>

GenResume == GenNode \/ GenComplete \/ GenResult \/ GenFallback \/ GenExcept

\* The consumer calls next() on the generator: a sub-step event still to be
\* yielded for the last node goes first, else the generator runs on to its
\* next yield.
GenNext ==
    /\ call.fn = GENERATOR
    /\ consumer = "reading"
    /\ pc \in {"graph", "result", "fallback", "except"}
    /\ IF pending # <<>>
       THEN /\ events' = Append(events, Head(pending))
            /\ pending' = Tail(pending)
            /\ UNCHANGED <<pc, node, state, trace, basic_path,
                           last_emitted_event_count, current_progress, result,
                           ai_feedbacks, arch_analyses>>
       ELSE GenResume
    /\ UNCHANGED <<config, LANGGRAPH_AVAILABLE, call, consumer, runs>>
    /\ UNCHANGED call_vars

\* The consumer stops reading (the client went away): the generator is closed
\* where it is suspended.
ConsumerStop ==
    /\ call.fn = GENERATOR
    /\ consumer = "reading"
    /\ pc \in {"graph", "result", "fallback", "except"}
    /\ consumer' = "stopped"
    /\ pc' = "closed"
    /\ UNCHANGED <<config, LANGGRAPH_AVAILABLE, call, node, state, trace, basic_path,
                   events, pending, last_emitted_event_count, current_progress,
                   result, ai_feedbacks, arch_analyses, runs>>
    /\ UNCHANGED call_vars

\* The entry point has returned (or its generator was closed): the caller drops
\* the call's ReviewState; the tables stay.
Return ==
    /\ pc \in {"done", "closed"}
    /\ pc' = "idle"
    /\ call' = NoCall
    /\ state' = ReviewState(NoCall)
    /\ node' = "initialize"
    /\ trace' = <<>>
    /\ basic_path' = "unset"
    /\ events' = <<>>
    /\ pending' = <<>>
    /\ last_emitted_event_count' = 0
    /\ current_progress' = 0
    /\ result' = NoResult
    /\ consumer' = "none"
    /\ UNCHANGED <<config, LANGGRAPH_AVAILABLE, ai_feedbacks, arch_analyses, runs>>
    /\ UNCHANGED call_vars

Next ==
    \/ Start
    \/ Return
    \/ GraphStep
    \/ GraphEnd
    \/ ExceptFallback
    \/ Fallback
    \/ GenNext
    \/ ConsumerStop

Spec == Init /\ [][Next]_vars


\* ================================================================= claims
Last(seq) == seq[Len(seq)]
Range(seq) == {seq[i] : i \in 1..Len(seq)}
IsPrefix(s, t) == Len(s) <= Len(t) /\ SubSeq(t, 1, Len(s)) = s

EnhancedOrder == <<"initialize", "route_analysis", "run_basic_review",
                   "run_arch_analysis", "enrich_feedback", "synthesize",
                   "save_results">>
SimpleOrder == <<"initialize", "route_analysis", "run_basic_review",
                 "synthesize", "save_results">>

RECURSIVE SumWeights(_)
SumWeights(seq) == IF seq = <<>> THEN 0 ELSE Weight(Head(seq)) + SumWeights(Tail(seq))

\* C1: analysis_path is always 'enhanced' or 'simple', and between the initial
\* state of a run and its end no step takes it from 'simple' back to 'enhanced'.
C1_PathOnlyDowngrades ==
    /\ [](state.analysis_path \in {"enhanced", "simple"})
    /\ [][(pc # "idle" /\ pc' # "idle" /\ state.analysis_path = "simple")
             => state'.analysis_path = "simple"]_vars

\* C1 witness: a node downgraded the path (architectural analysis failed on a
\* run that was still enhanced after the basic review).
C1_Witness ==
    /\ trace # <<>> /\ Last(trace) = "run_arch_analysis"
    /\ basic_path = "enhanced"
    /\ state.analysis_path = "simple"

\* C2: the nodes executed so far are a prefix of initialize, route_analysis,
\* run_basic_review, [run_arch_analysis, enrich_feedback,] synthesize,
\* save_results, where the bracketed pair runs exactly when analysis_path is
\* 'enhanced' after run_basic_review; a run that returns after the graph ran has
\* executed the whole order, save_results last.
C2_NodeOrder ==
    /\ basic_path = "unset" =>
          IsPrefix(trace, <<"initialize", "route_analysis">>)
    /\ basic_path = "enhanced" => (Len(trace) >= 3 /\ IsPrefix(trace, EnhancedOrder))
    /\ basic_path = "simple" => (Len(trace) >= 3 /\ IsPrefix(trace, SimpleOrder))
    /\ (pc = "done" /\ trace # <<>>) =>
          (trace \in {EnhancedOrder, SimpleOrder} /\ Last(trace) = "save_results")

\* C2 witness: a finished run that skipped the architectural nodes because the
\* basic review left the path simple.
C2_Witness ==
    /\ pc = "done"
    /\ basic_path = "simple"
    /\ call.pr_metadata
    /\ trace = SimpleOrder

\* C3: when a streaming entry point has finished, the last progress event it
\* emitted is ('complete', 100).
C3_CompleteAlwaysLast ==
    (pc = "done" /\ call.fn \in StreamingFns) =>
        (events # <<>> /\ Last(events) = CompleteEvent)

\* C4: every node-level event carries the running sum of the weights of the
\* nodes executed so far.
C4_ProgressIsRunningSum ==
    \A i \in 1..Len(events) :
        events[i].step \in NodeNames =>
            /\ i <= Len(trace)
            /\ events[i].step = trace[i]
            /\ events[i].progress = SumWeights(SubSeq(trace, 1, i))

\* C5: a submission never has more than one ai_feedbacks row or more than one
\* architectural_analyses row, and once save_results has run against a working
\* database the submission's single ai_feedbacks row holds the content of that
\* (latest) save.
DatabaseFault == "Save error: database error" \in Range(state.errors)

C5_SaveIsUpsert ==
    /\ \A sid \in SubmissionIds :
          /\ Cardinality(AIRowsFor(ai_feedbacks, sid)) <= 1
          /\ Cardinality(AIRowsFor(arch_analyses, sid)) <= 1
    /\ (trace # <<>> /\ Last(trace) = "save_results" /\ ~DatabaseFault) =>
          \E r \in ai_feedbacks :
              /\ r.submission_id = call.submission_id
              /\ r.content = state.final_content
              /\ r.written_by = runs

\* C5 witness: the second save for a submission updated the row the first save
\* had inserted.
C5_Witness ==
    /\ trace # <<>> /\ Last(trace) = "save_results"
    /\ \E r \in ai_feedbacks :
          /\ r.submission_id = call.submission_id
          /\ r.created_at = 1
          /\ r.written_by = 2
          /\ r.content = state.final_content

\* C6: right after route_analysis, analysis_path is 'simple' if architecture
\* analysis is disabled or small-PR skipping is on and the change set has fewer
\* than 5 files (none included), and otherwise what initialize left.
C6_RouteDowngradesBelowFloor ==
    (trace # <<>> /\ Last(trace) = "route_analysis") =>
        state.analysis_path =
            IF \/ ~config.ARCH_ANALYSIS_ENABLED
               \/ (config.ARCH_SKIP_SMALL_PRS /\ call.pr_files < SMALL_PR_FILES)
            THEN "simple"
            ELSE initialize_review(ReviewState(call)).analysis_path

\* C7: once run_arch_analysis has failed, the error is recorded and the path is
\* simple; the report body never holds architectural sections nor the synthesis
\* error text; this run writes no architectural_analyses row; and a run that
\* returns has executed synthesize and save_results.
ArchFailed == "Architectural analysis error" \in Range(state.errors)

C7_ArchFailureOmitsSections ==
    ArchFailed =>
        /\ "run_arch_analysis" \in Range(trace)
        /\ state.analysis_path = "simple"
        /\ state.final_content \notin {BASE_WITH_ARCH, SYNTH_ERROR_CONTENT}
        /\ \A r \in arch_analyses :
              r.submission_id = call.submission_id => r.written_by # runs
        /\ pc = "done" =>
              /\ {"synthesize", "save_results"} \subseteq Range(trace)
              /\ state.final_content = BASE_FEEDBACK
              /\ result.status = "returned" =>
                    result.value.content \notin {BASE_WITH_ARCH, SYNTH_ERROR_CONTENT}

\* C7 witness: the diagram generator failed after the analyzer's results were
\* stored in the state, and the run returned the plain report.
C7_Witness ==
    /\ pc = "done"
    /\ ArchFailed
    /\ state.arch_impact
    /\ result.status = "returned"
    /\ result.value.content = BASE_FEEDBACK

\* C8: a run that went through the graph and has finished returned a result
\* dict, and that dict carries the errors accumulated in state.errors.
C8_FailuresCaughtAndReported ==
    (pc = "done" /\ trace # <<>>) =>
        /\ result.status = "returned"
        /\ "errors" \in DOMAIN result.value
        /\ result.value.errors = state.errors

\* C9: a result returned when langgraph is missing has the keys of the graph
\* path's result, an evaluation with arch_analysis, and was saved by the run.
C9_FallbackSameShape ==
    (pc = "done" /\ ~LANGGRAPH_AVAILABLE /\ result.status = "returned") =>
        /\ DOMAIN result.value = DOMAIN GraphResult(state).value
        /\ "arch_analysis" \in result.value.evaluation
        /\ \E r \in ai_feedbacks :
              r.submission_id = call.submission_id /\ r.written_by = runs

\* C10: in the generator a node runs only in a step in which the consumer, still
\* reading, pulls; at that moment every event produced so far has been handed
\* over, and the step runs exactly one node and hands over exactly one event.
C10_DemandDriven ==
    [][(call.fn = GENERATOR /\ Len(trace') > Len(trace)) =>
           /\ consumer = "reading"
           /\ pending = <<>>
           /\ Len(events) = Len(trace) + Len(state.progress_events)
           /\ Len(trace') = Len(trace) + 1
           /\ Len(events') = Len(events) + 1]_vars

\* C10 witness: the consumer stopped reading after some nodes and before
\* save_results; the generator is closed with the later nodes not executed.
C10_Witness ==
    /\ call.fn = GENERATOR
    /\ consumer = "stopped"
    /\ Len(trace) >= 3
    /\ "save_results" \notin Range(trace)
    /\ Len(events) = Len(trace)

\* C11: with no API key and a rubric, a finished run returned the labelled demo
\* report and recorded no error.
C11_DemoWhenNoKey ==
    (pc = "done" /\ ~config.ANTHROPIC_API_KEY /\ call.rubric = "rubric") =>
        /\ result.status = "returned"
        /\ result.value.content = DEMO_FEEDBACK
        /\ state.errors = <<>>

\* ======================================================= change sets
\* A file name is its directories, the stem of its base name and its extension:
\* [dirs |-> <<"db", "migrations">>, stem |-> "001_users", ext |-> ".sql"] is
\* db/migrations/001_users.sql.
Path(dirs, stem, ext) == [dirs |-> dirs, stem |-> stem, ext |-> ext]

FileNameList ==
    << Path(<<"migrations">>, "001_users", ".sql"),
       Path(<<"db", "migrations">>, "001_users", ".sql"),
       Path(<<"app", "models">>, "user", ".py"),
       Path(<<"services">>, "auth", ".py") >>

FileNames == {FileNameList[i] : i \in 1..Len(FileNameList)}

Statuses == {"added", "removed", "modified", "renamed"}

\* The text of a patch line after its sign: an import statement, a route
\* decorator or an SQL statement.
IMPORT_OS == [kind |-> "import", val |-> "os"]
ROUTE_USERS == [kind |-> "route", val |-> "/users"]
DROP_TABLE_USERS == [kind |-> "sql", val |-> "DROP TABLE users"]

LineTexts == {IMPORT_OS, ROUTE_USERS, DROP_TABLE_USERS}

PatchLine(sign, text) == [sign |-> sign, kind |-> text.kind, val |-> text.val]

PatchLines == {PatchLine(sign, text) : sign \in {"+", "-"}, text \in LineTexts}

\* the lines a diff carries besides patch lines
Marker(text) == [sign |-> "", kind |-> "marker", val |-> text]
NEW_FILE_MODE == Marker("new file mode 100644")
DELETED_FILE_MODE == Marker("deleted file mode 100644")
RENAMED_FILE == Marker("renamed file")
BINARY_FILE == Marker("Binary file changed or too large to display")
DiffGit(f) == [sign |-> "", kind |-> "diff --git", val |-> "", file |-> f]

\* A patch: null, or its lines ('' and a missing key are no lines).
NullPatch == [null |-> TRUE, lines |-> <<>>]
Patch(lines) == [null |-> FALSE, lines |-> lines]

PatchesUpTo(k) ==
    {NullPatch} \cup {Patch(l) : l \in UNION {[1..n -> PatchLines] : n \in 0..k}}

CountSign(lines, sign) == Cardinality({i \in 1..Len(lines) : lines[i].sign = sign})

\* A file-change record of the GitHub API; additions and deletions count the
\* patch's lines.
FileInfo(f, status, patch) ==
    [filename |-> f, status |-> status,
     additions |-> CountSign(patch.lines, "+"),
     deletions |-> CountSign(patch.lines, "-"),
     patch |-> patch]

\* ------------------------------------------------------- file names
\* CodeParser.detect_language: the extension map ("None" is Python's None).
detect_language(f) ==
    CASE f.ext = ".py"            -> "python"
      [] f.ext \in {".js", ".jsx"} -> "javascript"
      [] f.ext \in {".ts", ".tsx"} -> "typescript"
      [] f.ext = ".java"          -> "java"
      [] OTHER                    -> "None"

\* '/d/' in filename: d is a directory of the name other than its first segment.
HasInnerDir(f, d) == \E i \in 2..Len(f.dirs) : f.dirs[i] = d

\* ArchitecturalAnalyzer._is_migration_file
is_migration_file(f) ==
    \/ HasInnerDir(f, "migrations")
    \/ HasInnerDir(f, "migrate")
    \/ HasInnerDir(f, "alembic")
    \/ (Len(f.dirs) >= 3 /\ \E i \in 2..(Len(f.dirs) - 1) :
            f.dirs[i] = "db" /\ f.dirs[i + 1] = "migrate")
    \/ (f.stem \in {"migrations", "migrate"} /\ f.ext = ".py")

\* ArchitecturalAnalyzer._extract_component_name
extract_component_name(f) ==
    IF f.dirs = <<>> THEN <<"root">>
    ELSE IF f.dirs[1] = "routes" /\ Len(f.dirs) >= 2
         THEN <<"routes", f.dirs[2]>>
         ELSE <<f.dirs[1]>>

\* re.search(r'b/(.+)$', "diff --git a/F b/F"): the leftmost "b/" of the line
\* starts the name, so a directory of F that ends in b cuts the name short and
\* drags the rest of the line into it.
EndsWithB(d) == d \in {"db", "lib"}

BaseThenB(f) ==
    CASE f.stem = "001_users" /\ f.ext = ".sql" -> "001_users.sql b"
      [] f.stem = "user" /\ f.ext = ".py"       -> "user.py b"
      [] f.stem = "auth" /\ f.ext = ".py"       -> "auth.py b"
      [] OTHER                                  -> "b"

HeaderFileName(f) ==
    IF \E i \in 1..Len(f.dirs) : EndsWithB(f.dirs[i])
    THEN LET i == CHOOSE j \in 1..Len(f.dirs) :
                     /\ EndsWithB(f.dirs[j])
                     /\ \A k \in 1..(j - 1) : ~EndsWithB(f.dirs[k])
         IN  [f EXCEPT !.dirs = SubSeq(f.dirs, i + 1, Len(f.dirs))
                                  \o <<BaseThenB(f)>> \o f.dirs]
    ELSE f

\* ------------------------------------------------------- unified diff
\* services.github_pr.pr_files_to_unified_diff: the lines of the diff.
RECURSIVE pr_files_to_unified_diff(_)
pr_files_to_unified_diff(files) ==
    IF files = <<>> THEN <<>>
    ELSE LET file == Head(files)
             part == IF file.patch.null \/ file.patch.lines = <<>>
                     THEN <<DiffGit(file.filename), BINARY_FILE>>
                     ELSE <<DiffGit(file.filename)>>
                          \o (CASE file.status = "added"   -> <<NEW_FILE_MODE>>
                                [] file.status = "removed" -> <<DELETED_FILE_MODE>>
                                [] file.status = "renamed" -> <<RENAMED_FILE>>
                                [] OTHER                   -> <<>>)
                          \o file.patch.lines
         IN  part \o pr_files_to_unified_diff(Tail(files))

\* file_changes[filename] = change: a dict keeps the place of a key it has.
PutChange(file_changes, change) ==
    IF \E i \in 1..Len(file_changes) : file_changes[i].filename = change.filename
    THEN [i \in 1..Len(file_changes) |->
             IF file_changes[i].filename = change.filename
             THEN change ELSE file_changes[i]]
    ELSE Append(file_changes, change)

\* one line of the diff after the first header: counted, looked at for the
\* file-mode markers, and kept as a line of the current file's patch
DiffLine(change, line) ==
    [change EXCEPT
        !.additions = IF line.sign = "+" THEN @ + 1 ELSE @,
        !.deletions = IF line.sign = "-" THEN @ + 1 ELSE @,
        !.status = CASE line = NEW_FILE_MODE     -> "added"
                     [] line = DELETED_FILE_MODE -> "removed"
                     [] OTHER                    -> @,
        !.patch = Patch(Append(@.lines, line))]

\* where file_changes holds the change of a file name (0: nowhere)
IndexOfFile(file_changes, f) ==
    IF \E i \in 1..Len(file_changes) : file_changes[i].filename = f
    THEN CHOOSE i \in 1..Len(file_changes) : file_changes[i].filename = f
    ELSE 0

\* the loop over diff_content.split('\n'); current_file is <<>> (None) until the first
\* header
RECURSIVE ParseUnifiedDiff(_, _, _)
ParseUnifiedDiff(lines, file_changes, current_file) ==
    IF lines = <<>> THEN file_changes
    ELSE LET line == Head(lines)
         IN  IF line.kind = "diff --git"
             THEN LET f == HeaderFileName(line.file)
                  IN  ParseUnifiedDiff(Tail(lines),
                        PutChange(file_changes,
                          [filename |-> f, status |-> "modified",
                           additions |-> 0, deletions |-> 0, patch |-> Patch(<<>>),
                           language |-> detect_language(f)]),
                        <<f>>)
             ELSE IF current_file = <<>>
                  THEN ParseUnifiedDiff(Tail(lines), file_changes, current_file)
                  ELSE ParseUnifiedDiff(Tail(lines),
                         [file_changes EXCEPT
                            ![IndexOfFile(file_changes, current_file[1])] =
                                DiffLine(@, line)],
                         current_file)

\* ArchitecturalAnalyzer._parse_diff_files
parse_diff_files(diff_content, pr_files) ==
    IF pr_files # <<>>
    THEN [i \in 1..Len(pr_files) |->
             [filename |-> pr_files[i].filename, status |-> pr_files[i].status,
              additions |-> pr_files[i].additions, deletions |-> pr_files[i].deletions,
              patch |-> pr_files[i].patch,
              language |-> detect_language(pr_files[i].filename)]]
    ELSE ParseUnifiedDiff(diff_content, <<>>, <<>>)

\* ------------------------------------------------------- the analyses
SelectSign(lines, sign) ==
    LET Idx == {i \in 1..Len(lines) : lines[i].sign = sign}
        RECURSIVE Pick(_)
        Pick(i) == IF i > Len(lines) THEN <<>>
                   ELSE IF i \in Idx THEN <<lines[i]>> \o Pick(i + 1)
                   ELSE Pick(i + 1)
    IN  Pick(1)

\* lines starting with '+' (and not '+++'), without the sign
added_lines(patch) == SelectSign(patch.lines, "+")
removed_lines(patch) == SelectSign(patch.lines, "-")

SeqRange(seq) == {seq[i] : i \in 1..Len(seq)}

\* the entries of a list that pass a test, each through a mapping, in order
RECURSIVE MapKind(_, _)
MapKind(lines, kind) ==
    IF lines = <<>> THEN <<>>
    ELSE IF Head(lines).kind = kind
         THEN <<Head(lines).val>> \o MapKind(Tail(lines), kind)
         ELSE MapKind(Tail(lines), kind)

\* CodeParser.parse_imports: the modules of the import statements (PythonParser;
\* the other parsers' patterns match none of LineTexts).
parse_imports(code, language) ==
    IF language = "python" THEN MapKind(code, "import") ELSE <<>>

\* CodeParser.parse_api_routes: the paths of the route decorators; the method is
\* GET and the function 'unknown' (no def line follows).
parse_api_routes(code, language) ==
    IF language = "python" THEN MapKind(code, "route") ELSE <<>>

\* the changes a per-file analysis looks at: a language and a non-empty patch
Analysable(change) ==
    /\ change.language # "None"
    /\ ~change.patch.null
    /\ change.patch.lines # <<>>

RECURSIVE SelectAnalysable(_)
SelectAnalysable(file_changes) ==
    IF file_changes = <<>> THEN <<>>
    ELSE IF Analysable(Head(file_changes))
         THEN <<Head(file_changes)>> \o SelectAnalysable(Tail(file_changes))
         ELSE SelectAnalysable(Tail(file_changes))

IsInternalModule(m) == m \in {"models", "services", "routes", "utils", "config"}

\* the dependency analysis with the two import sets reported as they are
analyze_dependencies_gross(file_changes) ==
    LET fcs == SelectAnalysable(file_changes)
        file_added(c) == parse_imports(added_lines(c.patch), c.language)
        file_removed(c) == parse_imports(removed_lines(c.patch), c.language)
        added_imports == UNION {SeqRange(file_added(fcs[i])) : i \in 1..Len(fcs)}
        removed_imports == UNION {SeqRange(file_removed(fcs[i])) : i \in 1..Len(fcs)}
    IN  [added |-> added_imports,
         removed |-> removed_imports,
         by_file |-> [i \in 1..Len(fcs) |->
                         [filename |-> fcs[i].filename,
                          added |-> file_added(fcs[i]),
                          removed |-> file_removed(fcs[i])]],
         external_dependencies |-> {m \in added_imports : ~IsInternalModule(m)}]

\* ArchitecturalAnalyzer._analyze_dependencies (sorted lists of sets are sets)
analyze_dependencies(file_changes) ==
    LET fcs == SelectAnalysable(file_changes)
        file_added(c) == parse_imports(added_lines(c.patch), c.language)
        file_removed(c) == parse_imports(removed_lines(c.patch), c.language)
        added_imports == UNION {SeqRange(file_added(fcs[i])) : i \in 1..Len(fcs)}
        removed_imports == UNION {SeqRange(file_removed(fcs[i])) : i \in 1..Len(fcs)}
        truly_added == added_imports \ removed_imports
        truly_removed == removed_imports \ added_imports
    IN  [added |-> truly_added,
         removed |-> truly_removed,
         by_file |-> [i \in 1..Len(fcs) |->
                         [filename |-> fcs[i].filename,
                          added |-> file_added(fcs[i]),
                          removed |-> file_removed(fcs[i])]],
         external_dependencies |-> {m \in truly_added : ~IsInternalModule(m)}]

Endpoint(path, f) ==
    [method |-> "GET", path |-> path, file |-> f, function |-> "unknown"]

RECURSIVE Endpoints(_, _)
Endpoints(fcs, sign) ==
    IF fcs = <<>> THEN <<>>
    ELSE LET c == Head(fcs)
             routes == parse_api_routes(SelectSign(c.patch.lines, sign), c.language)
         IN  [i \in 1..Len(routes) |-> Endpoint(routes[i], c.filename)]
             \o Endpoints(Tail(fcs), sign)

\* ArchitecturalAnalyzer._analyze_api_changes
analyze_api_changes(file_changes) ==
    LET fcs == SelectAnalysable(file_changes)
        new_endpoints == Endpoints(fcs, "+")
        removed_endpoints == Endpoints(fcs, "-")
    IN  [new_endpoints |-> new_endpoints,
         removed_endpoints |-> removed_endpoints,
         modified_endpoints |-> <<>>,
         breaking_changes |->
             IF removed_endpoints # <<>>
             THEN <<[signal |-> "Removed endpoint(s) - potential breaking change",
                     count |-> Len(removed_endpoints)]>>
             ELSE <<>>]

\* any(keyword in patch.lower() ...): 'drop table', 'drop column' or
\* 'alter column' somewhere in the patch
HasDestructiveSql(patch) ==
    \E i \in 1..Len(patch.lines) : patch.lines[i].kind = "sql"

IsModelFile(change) ==
    change.language = "python" /\ HasInnerDir(change.filename, "models")

RECURSIVE SelectMigrations(_)
SelectMigrations(file_changes) ==
    IF file_changes = <<>> THEN <<>>
    ELSE IF is_migration_file(Head(file_changes).filename)
         THEN <<Head(file_changes)>> \o SelectMigrations(Tail(file_changes))
         ELSE SelectMigrations(Tail(file_changes))

RECURSIVE SchemaBreaking(_)
SchemaBreaking(migrations) ==
    IF migrations = <<>> THEN <<>>
    ELSE (IF HasDestructiveSql(Head(migrations).patch)
          THEN <<[signal |-> "Migration contains potentially breaking schema changes",
                  file |-> Head(migrations).filename]>>
          ELSE <<>>)
         \o SchemaBreaking(Tail(migrations))

\* ArchitecturalAnalyzer._analyze_schema_changes: patch.lower() and
\* patch.split() raise AttributeError on a patch that is None.  No line of
\* LineTexts declares a model class, so the model lists stay empty.
analyze_schema_changes(file_changes) ==
    IF \E i \in 1..Len(file_changes) :
          /\ file_changes[i].patch.null
          /\ (is_migration_file(file_changes[i].filename) \/ IsModelFile(file_changes[i]))
    THEN [status |-> "raised"]
    ELSE LET migrations == SelectMigrations(file_changes)
         IN  [status |-> "returned",
              value |-> [migration_files |->
                             [i \in 1..Len(migrations) |-> migrations[i].filename],
                         new_models |-> <<>>,
                         modified_models |-> <<>>,
                         removed_models |-> <<>>,
                         breaking_changes |-> SchemaBreaking(migrations)]]

\* ArchitecturalAnalyzer._classify_component_type
classify_component_type(name) ==
    CASE name[1] = "models"      -> "data"
      [] name[1] = "services"    -> "business_logic"
      [] name[1] \in {"routes", "controllers"} -> "api"
      [] name[1] = "views"       -> "presentation"
      [] name[1] = "utils"       -> "utility"
      [] name[1] = "config"      -> "configuration"
      [] name[1] = "tests"       -> "testing"
      [] OTHER                   -> "module"

RECURSIVE FilesOfComponent(_, _)
FilesOfComponent(file_changes, name) ==
    IF file_changes = <<>> THEN <<>>
    ELSE (IF extract_component_name(Head(file_changes).filename) = name
          THEN <<Head(file_changes).filename>> ELSE <<>>)
         \o FilesOfComponent(Tail(file_changes), name)

\* ArchitecturalAnalyzer._identify_components
identify_components(file_changes) ==
    { [name |-> n,
       files |-> FilesOfComponent(file_changes, n),
       type |-> classify_component_type(n),
       file_count |-> Len(FilesOfComponent(file_changes, n))] :
      n \in {extract_component_name(file_changes[i].filename) :
               i \in 1..Len(file_changes)} }

\* ------------------------------------------------------- impact
SCOPE_LOW_COMPONENTS == 1
SCOPE_LOW_FILES == 3
SCOPE_MEDIUM_COMPONENTS == 3
SCOPE_MEDIUM_FILES == 10
RISK_HIGH_FACTORS == 3
RISK_MEDIUM_FACTORS == 1
COMPLEXITY_HIGH_LINES == 500
COMPLEXITY_HIGH_FILES == 15
COMPLEXITY_MEDIUM_LINES == 100
COMPLEXITY_MEDIUM_FILES == 5

\* the scope thresholds read as exclusive
scope_level_exclusive(num_components, files_changed) ==
    IF num_components < SCOPE_LOW_COMPONENTS /\ files_changed < SCOPE_LOW_FILES
    THEN "low"
    ELSE IF num_components < SCOPE_MEDIUM_COMPONENTS /\ files_changed < SCOPE_MEDIUM_FILES
         THEN "medium"
         ELSE "high"

\* _assess_impact: scope
scope_level(num_components, files_changed) ==
    IF num_components <= SCOPE_LOW_COMPONENTS /\ files_changed <= SCOPE_LOW_FILES
    THEN "low"
    ELSE IF num_components <= SCOPE_MEDIUM_COMPONENTS /\ files_changed <= SCOPE_MEDIUM_FILES
         THEN "medium"
         ELSE "high"

\* the risk factors without the note on removed dependencies
risk_factors_breaking_only(api_breaking, schema_breaking, deps_removed) ==
    api_breaking \o schema_breaking

\* _assess_impact: risk_factors
risk_factors(api_breaking, schema_breaking, deps_removed) ==
    api_breaking \o schema_breaking
        \o (IF deps_removed # {}
            THEN <<[signal |-> "Removed dependencies",
                    count |-> Cardinality(deps_removed)]>>
            ELSE <<>>)

\* _assess_impact: risk
risk_level(num_factors) ==
    IF num_factors >= RISK_HIGH_FACTORS THEN "high"
    ELSE IF num_factors >= RISK_MEDIUM_FACTORS THEN "medium"
    ELSE "low"

\* _assess_impact: complexity
complexity_level(total_lines, files_changed) ==
    IF total_lines > COMPLEXITY_HIGH_LINES \/ files_changed > COMPLEXITY_HIGH_FILES
    THEN "high"
    ELSE IF total_lines > COMPLEXITY_MEDIUM_LINES \/ files_changed > COMPLEXITY_MEDIUM_FILES
         THEN "medium"
         ELSE "low"

\* _assess_impact, from the metrics it counts
ImpactOf(files_changed, lines_added, lines_removed, components_affected, api_breaking, schema_breaking, deps_removed) ==
    LET factors == risk_factors(api_breaking, schema_breaking, deps_removed)
    IN  [scope |-> scope_level(Cardinality(components_affected), files_changed),
         risk |-> risk_level(Len(factors)),
         complexity |-> complexity_level(lines_added + lines_removed, files_changed),
         files_changed |-> files_changed,
         lines_added |-> lines_added,
         lines_removed |-> lines_removed,
         components_affected |-> components_affected,
         risk_factors |-> factors]

RECURSIVE SumField(_, _)
SumField(file_changes, field) ==
    IF file_changes = <<>> THEN 0
    ELSE Head(file_changes)[field] + SumField(Tail(file_changes), field)

\* ArchitecturalAnalyzer._assess_impact
assess_impact(file_changes, dependency_changes, api_changes, schema_changes) ==
    ImpactOf(Len(file_changes),
             SumField(file_changes, "additions"),
             SumField(file_changes, "deletions"),
             {extract_component_name(file_changes[i].filename) :
                 i \in 1..Len(file_changes)},
             api_changes.breaking_changes,
             schema_changes.breaking_changes,
             dependency_changes.removed)

\* ArchitecturalAnalyzer.analyze_pr_diff
analyze_pr_diff(diff_content, pr_files) ==
    LET file_changes == parse_diff_files(diff_content, pr_files)
        dependency_changes == analyze_dependencies(file_changes)
        api_changes == analyze_api_changes(file_changes)
        schema_changes == analyze_schema_changes(file_changes)
    IN  IF schema_changes.status = "raised"
        THEN [status |-> "raised"]
        ELSE [status |-> "returned",
              value |-> [dependencies |-> dependency_changes,
                         api_changes |-> api_changes,
                         schema_changes |-> schema_changes.value,
                         components |-> identify_components(file_changes),
                         impact |-> assess_impact(file_changes, dependency_changes,
                                                  api_changes, schema_changes.value),
                         files_changed |-> file_changes]]

\* ======================================================= analyzer calls
MaxChangeLines == 2

review_vars == <<config, LANGGRAPH_AVAILABLE, call, pc, node, state, trace,
                 basic_path, events, pending, last_emitted_event_count,
                 current_progress, result, consumer, ai_feedbacks, arch_analyses,
                 runs>>

\* no review is running
ReviewIdle ==
    /\ config = [ARCH_ANALYSIS_ENABLED |-> TRUE, ARCH_SKIP_SMALL_PRS |-> TRUE,
                 ANTHROPIC_API_KEY |-> FALSE]
    /\ LANGGRAPH_AVAILABLE = TRUE
    /\ call = NoCall
    /\ pc = "idle"
    /\ node = "initialize"
    /\ state = ReviewState(NoCall)
    /\ trace = <<>>
    /\ basic_path = "unset"
    /\ events = <<>>
    /\ pending = <<>>
    /\ last_emitted_event_count = 0
    /\ current_progress = 0
    /\ result = NoResult
    /\ consumer = "none"
    /\ ai_feedbacks = {}
    /\ arch_analyses = {}
    /\ runs = 0

\* The change sets analysed: no file, one file, or two files of different
\* names, with at most MaxChangeLines patch lines in all.
InitAnalyzer ==
    /\ ReviewIdle
    /\ op = "analyze_pr_diff"
    /\ ret = [n \in {} |-> 0]
    /\ \/ arg = <<>>
       \/ \E i \in 1..Len(FileNameList), s1 \in Statuses,
             p1 \in PatchesUpTo(MaxChangeLines) :
             arg = <<FileInfo(FileNameList[i], s1, p1)>>
       \/ \E i \in 1..Len(FileNameList), s1 \in Statuses,
             p1 \in PatchesUpTo(MaxChangeLines) :
            \E j \in (i + 1)..Len(FileNameList), s2 \in Statuses,
               p2 \in PatchesUpTo(MaxChangeLines - Len(p1.lines)) :
               arg = <<FileInfo(FileNameList[i], s1, p1),
                       FileInfo(FileNameList[j], s2, p2)>>

\* analyze_pr_diff(diff_content, pr_files) with the file-change records
AnalyzeFiles ==
    /\ op = "analyze_pr_diff"
    /\ DOMAIN ret = {}
    /\ ret' = [n \in {"files"} |-> analyze_pr_diff(pr_files_to_unified_diff(arg), arg)]
    /\ UNCHANGED <<op, arg>>
    /\ UNCHANGED review_vars

\* analyze_pr_diff(diff_content) with the unified diff of the same change set
AnalyzeDiff ==
    /\ op = "analyze_pr_diff"
    /\ DOMAIN ret = {"files"}
    /\ ret' = [n \in {"files", "diff"} |->
                 IF n = "files" THEN ret.files
                 ELSE analyze_pr_diff(pr_files_to_unified_diff(arg), <<>>)]
    /\ UNCHANGED <<op, arg>>
    /\ UNCHANGED review_vars

NextAnalyzer == AnalyzeFiles \/ AnalyzeDiff

SpecAnalyzer == InitAnalyzer /\ [][NextAnalyzer]_vars

\* ------------------------------------------------- claims on the analyzer
\* the results analyze_pr_diff has returned in this state
Returned == {n \in DOMAIN ret : ret[n].status = "returned"}

\* the modules imported by the lines of one sign in the Python files of the
\* change set
LineVals(file_info, sign, kind) ==
    {file_info.patch.lines[k].val :
        k \in {x \in 1..Len(file_info.patch.lines) :
                 /\ file_info.filename.ext = ".py"
                 /\ file_info.patch.lines[x].sign = sign
                 /\ file_info.patch.lines[x].kind = kind}}

ImportsFound(sign) == UNION {LineVals(arg[i], sign, "import") : i \in 1..Len(arg)}

\* C12: dependencies.added and dependencies.removed are disjoint, and a module
\* imported by an added line and by a removed line of the change set, in the
\* same file or in two files, is in neither.
C12_DependenciesCancel ==
    \A n \in Returned :
        LET deps == ret[n].value.dependencies
        IN  /\ deps.added \cap deps.removed = {}
            /\ \A m \in ImportsFound("+") \cap ImportsFound("-") :
                  m \notin deps.added \cup deps.removed
            /\ deps.added = ImportsFound("+") \ ImportsFound("-")
            /\ deps.removed = ImportsFound("-") \ ImportsFound("+")

\* C12 witness: one file adds the import another file removes, and the
\* analysis reports it in neither list.
C12_Witness ==
    /\ op = "analyze_pr_diff"
    /\ "files" \in Returned
    /\ Len(arg) = 2
    /\ \E i, j \in 1..2 :
          /\ i # j
          /\ PatchLine("+", IMPORT_OS) \in SeqRange(arg[i].patch.lines)
          /\ PatchLine("-", IMPORT_OS) \in SeqRange(arg[j].patch.lines)
          /\ arg[i].filename.ext = ".py"
          /\ arg[j].filename.ext = ".py"
    /\ ret.files.value.dependencies.added = {}
    /\ ret.files.value.dependencies.removed = {}

\* the paths of the routes on the lines of one sign of a Python file
RoutesFound(file_info, sign) == LineVals(file_info, sign, "route")

\* C13: an endpoint is in new_endpoints only if its route is on an added line
\* and on no removed line of its file, and in removed_endpoints only if it is
\* on a removed line and on no added line.
C13_EndpointsOnlyOneSided ==
    ("files" \in Returned) =>
        \A i \in 1..Len(arg) :
            LET f == arg[i].filename
                api == ret.files.value.api_changes
            IN  /\ \A e \in SeqRange(api.new_endpoints) :
                      e.file = f => /\ e.path \in RoutesFound(arg[i], "+")
                                    /\ e.path \notin RoutesFound(arg[i], "-")
                /\ \A e \in SeqRange(api.removed_endpoints) :
                      e.file = f => /\ e.path \in RoutesFound(arg[i], "-")
                                    /\ e.path \notin RoutesFound(arg[i], "+")

\* a file of a directory named migrations, at any depth
InMigrationsDir(f) == \E i \in 1..Len(f.dirs) : f.dirs[i] = "migrations"

\* C16: when the change set deletes a file of a migrations directory whose patch
\* holds DROP TABLE users, schema_changes.breaking_changes is not empty and
\* impact.risk is not 'low'.
C16_DeletedMigrationIsBreaking ==
    \A n \in Returned :
        (\E i \in 1..Len(arg) :
            /\ InMigrationsDir(arg[i].filename)
            /\ arg[i].status = "removed"
            /\ \E k \in 1..Len(arg[i].patch.lines) :
                  arg[i].patch.lines[k] = PatchLine("-", DROP_TABLE_USERS))
        => /\ ret[n].value.schema_changes.breaking_changes # <<>>
           /\ ret[n].value.impact.risk # "low"

\* C17: the analysis of the file-change records and the analysis of their
\* unified diff are the same.
C17_RecordsAndDiffAgree ==
    (DOMAIN ret = {"files", "diff"}) => ret.files = ret.diff

\* the change set with the patch of its i-th file emptied
WithEmptyPatch(cs, i) ==
    [cs EXCEPT ![i] = FileInfo(cs[i].filename, cs[i].status, Patch(<<>>))]

\* C18: analyze_pr_diff returns, and a file whose patch is null changes nothing
\* in the reports: they are those of the change set with that patch empty.
C18_NeverRaises ==
    ("files" \in DOMAIN ret) =>
        /\ ret.files.status = "returned"
        /\ \A i \in 1..Len(arg) :
              arg[i].patch.null =>
                  LET other == analyze_pr_diff(<<>>, WithEmptyPatch(arg, i)).value
                      this == ret.files.value
                  IN  /\ this.dependencies = other.dependencies
                      /\ this.api_changes = other.api_changes
                      /\ this.schema_changes = other.schema_changes
                      /\ this.components = other.components
                      /\ this.impact = other.impact

\* ======================================================= impact calls
MaxImpactFiles == 16
MaxImpactComponents == 4
MaxImpactLines == 501
MaxSchemaBreaking == 2

API_BREAKING_NOTE ==
    [signal |-> "Removed endpoint(s) - potential breaking change", count |-> 1]
SCHEMA_BREAKING_NOTE ==
    [signal |-> "Migration contains potentially breaking schema changes",
     file |-> Path(<<"db", "migrations">>, "001_users", ".sql")]

\* The metrics _assess_impact counts on a change set: every file belongs to one
\* component, so there are no more components than files, and at least one
\* when there is a file.
InitImpact ==
    /\ ReviewIdle
    /\ op = "_assess_impact"
    /\ ret = [n \in {} |-> 0]
    /\ \E f \in 0..MaxImpactFiles, c \in 0..MaxImpactComponents,
          added \in 0..MaxImpactLines, removed \in 0..1,
          api \in 0..1, schema \in 0..MaxSchemaBreaking, deps \in SUBSET {"os"} :
         /\ c <= f
         /\ (f > 0 => c > 0)
         /\ arg = [files_changed |-> f,
                   components_affected |-> {<<"component", i>> : i \in 1..c},
                   lines_added |-> added,
                   lines_removed |-> removed,
                   api_breaking |-> [i \in 1..api |-> API_BREAKING_NOTE],
                   schema_breaking |-> [i \in 1..schema |-> SCHEMA_BREAKING_NOTE],
                   deps_removed |-> deps]

\* _assess_impact classifies the change set
AssessImpact ==
    /\ op = "_assess_impact"
    /\ DOMAIN ret = {}
    /\ ret' = [n \in {"impact"} |->
                 ImpactOf(arg.files_changed, arg.lines_added, arg.lines_removed,
                          arg.components_affected, arg.api_breaking,
                          arg.schema_breaking, arg.deps_removed)]
    /\ UNCHANGED <<op, arg>>
    /\ UNCHANGED review_vars

NextImpact == AssessImpact

SpecImpact == InitImpact /\ [][NextImpact]_vars

\* C14: scope is low iff components <= 1 and files <= 3, medium iff not low and
\* components <= 3 and files <= 10, else high; complexity is low iff lines <= 100
\* and files <= 5, medium iff not low and lines <= 500 and files <= 15, else
\* high; each is a function of its own two metrics alone.
C14_ScopeAndComplexityThresholds ==
    ("impact" \in DOMAIN ret) =>
        LET c == Cardinality(arg.components_affected)
            f == arg.files_changed
            n == arg.lines_added + arg.lines_removed
            impact == ret.impact
        IN  /\ impact.scope = "low" <=> (c <= 1 /\ f <= 3)
            /\ impact.scope = "medium" <=>
                  (~(c <= 1 /\ f <= 3) /\ c <= 3 /\ f <= 10)
            /\ impact.scope = "high" <=> ~(c <= 3 /\ f <= 10)
            /\ impact.complexity = "low" <=> (n <= 100 /\ f <= 5)
            /\ impact.complexity = "medium" <=>
                  (~(n <= 100 /\ f <= 5) /\ n <= 500 /\ f <= 15)
            /\ impact.complexity = "high" <=> ~(n <= 500 /\ f <= 15)

\* C14 witness: a change set just past two fence-posts, 4 files in one component
\* and 101 changed lines, classified medium in scope and in complexity.
C14_Witness ==
    /\ "impact" \in DOMAIN ret
    /\ arg.files_changed = 4
    /\ Cardinality(arg.components_affected) = 1
    /\ arg.lines_added + arg.lines_removed = 101
    /\ ret.impact.scope = "medium"
    /\ ret.impact.complexity = "medium"

\* the risk factors _assess_impact counts: the breaking-change notes of the API
\* and schema analyses, and one more when a dependency was removed
RiskSignals ==
    Len(arg.api_breaking) + Len(arg.schema_breaking)
        + (IF arg.deps_removed # {} THEN 1 ELSE 0)

\* C15, as stated: risk is low exactly when the API and schema analyses report
\* no breaking change, medium with 1 or 2 of their notes, high with 3 or more.
C15_RiskFromBreakingChangesOnly ==
    ("impact" \in DOMAIN ret) =>
        LET signals == Len(arg.api_breaking) + Len(arg.schema_breaking)
        IN  /\ ret.impact.risk = "low" <=> signals = 0
            /\ ret.impact.risk = "medium" <=> signals \in {1, 2}
            /\ ret.impact.risk = "high" <=> signals >= 3

\* C15, amended: risk is low exactly when there is no risk factor, medium with
\* 1 or 2 and high with 3 or more, where the risk factors are the API and schema
\* breaking-change notes and, when dependencies were removed, one note on them.
C15_RiskFromRiskFactors ==
    ("impact" \in DOMAIN ret) =>
        /\ Len(ret.impact.risk_factors) = RiskSignals
        /\ ret.impact.risk = "low" <=> RiskSignals = 0
        /\ ret.impact.risk = "medium" <=> RiskSignals \in {1, 2}
        /\ ret.impact.risk = "high" <=> RiskSignals >= 3

\* C15 witness: a removed dependency alone, with no breaking change in the API
\* or the schema, makes the risk medium.
C15_Witness ==
    /\ "impact" \in DOMAIN ret
    /\ arg.api_breaking = <<>>
    /\ arg.schema_breaking = <<>>
    /\ arg.deps_removed # {}
    /\ ret.impact.risk = "medium"

\* ======================================================= routes.submissions
MaxCalls == 4
MaxFeedbackSubmissions == 2

\* the submissions the routes serve
FeedbackSubmissionIds == 1..MaxFeedbackSubmissions

\* an AIFeedback object that is not in the session yet
NewAIFeedback(sid) ==
    [id |-> 0, submission_id |-> sid, content |-> NO_CONTENT,
     created_at |-> 0, written_by |-> 0]

\* AIFeedback(submission_id=...) without the query first
get_or_create_ai_feedback_no_lookup(rows, sid) ==
    [ai_feedback |-> NewAIFeedback(sid), created_new |-> TRUE]

\* routes.submissions.get_or_create_ai_feedback
get_or_create_ai_feedback(rows, sid) ==
    IF AIRowsFor(rows, sid) # {}
    THEN [ai_feedback |-> CHOOSE r \in AIRowsFor(rows, sid) : TRUE,
          created_new |-> FALSE]
    ELSE [ai_feedback |-> NewAIFeedback(sid), created_new |-> TRUE]

FeedbackContents == {DEMO_FEEDBACK, FULL_REVIEW_FEEDBACK}

\* The caller sets the fields of the record it was given, adds it to the session
\* when it was created, and commits; a second row for a submission violates the
\* UNIQUE constraint and the commit is rolled back.
CommitFeedback(rows, held, content, run) ==
    IF held.created_new
    THEN LET row == [id |-> Cardinality(rows) + 1,
                     submission_id |-> held.ai_feedback.submission_id,
                     content |-> content, created_at |-> run, written_by |-> run]
         IN  IF UniqueSubmission(rows \cup {row}) THEN rows \cup {row} ELSE rows
    ELSE {IF r.id = held.ai_feedback.id
          THEN [r EXCEPT !.content = content, !.written_by = run] ELSE r : r \in rows}

feedback_other_vars ==
    <<config, LANGGRAPH_AVAILABLE, call, pc, node, state, trace, basic_path,
      events, pending, last_emitted_event_count, current_progress, result,
      consumer, arch_analyses>>

InitFeedback ==
    /\ ReviewIdle
    /\ op = "none"
    /\ arg = 0
    /\ ret = <<>>

\* a route calls get_or_create_ai_feedback(submission.id) and holds what it got
GetOrCreate ==
    /\ runs < MaxCalls
    /\ \E sid \in FeedbackSubmissionIds :
         /\ arg' = sid
         /\ ret' = Append(ret, get_or_create_ai_feedback(ai_feedbacks, sid))
    /\ op' = "get_or_create_ai_feedback"
    /\ runs' = runs + 1
    /\ UNCHANGED ai_feedbacks
    /\ UNCHANGED feedback_other_vars

\* ... and saves a record it holds; arg names the record and the content saved
SaveFeedback ==
    /\ \E i \in 1..Len(ret), content \in FeedbackContents :
         /\ ai_feedbacks' = CommitFeedback(ai_feedbacks, ret[i], content, runs)
         /\ ret' = SubSeq(ret, 1, i - 1) \o SubSeq(ret, i + 1, Len(ret))
         /\ arg' = [held |-> ret[i], content |-> content]
    /\ op' = "commit"
    /\ UNCHANGED runs
    /\ UNCHANGED feedback_other_vars

NextFeedback == GetOrCreate \/ SaveFeedback

SpecFeedback == InitFeedback /\ [][NextFeedback]_vars

\* C19: a call returns the submission's row and False when the row exists, and
\* an unsaved record and True otherwise; a submission never has two rows; and a
\* row, once there, stays the submission's row (the same id) whatever calls and
\* saves follow.
C19_GetOrCreateKeepsOneRow ==
    /\ [](op = "get_or_create_ai_feedback" =>
            LET got == ret[Len(ret)]
                rows == AIRowsFor(ai_feedbacks, arg)
            IN  /\ rows # {} => (~got.created_new /\ got.ai_feedback \in rows)
                /\ rows = {} => /\ got.created_new
                                /\ got.ai_feedback = NewAIFeedback(arg)
                                /\ got.ai_feedback \notin ai_feedbacks)
    /\ [](\A sid \in FeedbackSubmissionIds :
            Cardinality(AIRowsFor(ai_feedbacks, sid)) <= 1)
    /\ [][\A r \in ai_feedbacks :
             \E r2 \in ai_feedbacks' :
                 r2.id = r.id /\ r2.submission_id = r.submission_id]_vars

\* C19 witness: the third call for a submission returns, with created False, the
\* one row that the first call's record became.
C19_Witness ==
    /\ op = "get_or_create_ai_feedback"
    /\ runs = 3
    /\ ~ret[Len(ret)].created_new
    /\ ret[Len(ret)].ai_feedback \in ai_feedbacks
    /\ ret[Len(ret)].ai_feedback.created_at = 1
    /\ Cardinality(AIRowsFor(ai_feedbacks, arg)) = 1

\* ------------------------------------------------- instructor unlock
MaxCoreGoals == 4

UNLOCK_TOTAL_DIVISOR == 2

\* GoalProgress.status
ProgressStatuses == {"locked", "in_progress", "engaged", "passed", "expired"}

\* What the query for a core goal's GoalProgress finds: no row, or a row with
\* its status and whether expires_at has passed.
NoProgress == [found |-> FALSE, status |-> "locked", is_expired |-> FALSE]
GoalProgresses ==
    {NoProgress}
    \cup [found : {TRUE}, status : ProgressStatuses, is_expired : BOOLEAN]

\* GoalProgress.can_unlock_instructor
can_unlock_instructor(progress) ==
    progress.status \in {"passed", "engaged"} /\ ~progress.is_expired

\* valid_count / total >= 0.5: the quotient of two small integers is below 0.5
\* by at least 1 / (2 * total) or not below it, so the rounded quotient compares
\* with 0.5 as the exact one does
AtLeastHalf(valid_count, total) == 2 * valid_count >= total

\* routes.submissions.check_instructor_unlock_threshold; progresses holds, per
\* core goal of the learning goal, what the GoalProgress query finds
check_instructor_unlock_threshold(progresses) ==
    IF progresses = <<>>
    THEN [threshold_met |-> TRUE,
          stats |-> [total |-> 0, valid |-> 0, threshold_met |-> TRUE]]
    ELSE LET total == Len(progresses)
             valid_count == Cardinality({i \in 1..total :
                               /\ progresses[i].found
                               /\ can_unlock_instructor(progresses[i])})
             threshold_met == AtLeastHalf(valid_count, total)
             target == (total \div UNLOCK_TOTAL_DIVISOR) + 1
         IN  [threshold_met |-> threshold_met,
              stats |-> [total |-> total,
                         valid |-> valid_count,
                         threshold_met |-> threshold_met,
                         needed |-> IF target - valid_count > 0
                                    THEN target - valid_count ELSE 0]]

InitUnlock ==
    /\ ReviewIdle
    /\ op = "check_instructor_unlock_threshold"
    /\ arg \in UNION {[1..n -> GoalProgresses] : n \in 0..MaxCoreGoals}
    /\ ret = [n \in {} |-> 0]

\* request_instructor_feedback asks whether the threshold is met
CheckUnlock ==
    /\ op = "check_instructor_unlock_threshold"
    /\ DOMAIN ret = {}
    /\ ret' = [n \in {"unlock"} |-> check_instructor_unlock_threshold(arg)]
    /\ UNCHANGED <<op, arg>>
    /\ UNCHANGED review_vars

NextUnlock == CheckUnlock

SpecUnlock == InitUnlock /\ [][NextUnlock]_vars

\* the core goals with 'passed' or 'engaged' progress that has not expired
ValidGoals ==
    Cardinality({i \in 1..Len(arg) :
                    /\ arg[i].found
                    /\ arg[i].status \in {"passed", "engaged"}
                    /\ ~arg[i].is_expired})

\* C20: threshold_met is true exactly when at least half of the core goals are
\* valid (or there is none), and with one core goal or more 'needed' is 0 iff
\* the threshold is met and else the least number of further valid goals that
\* meets it.
C20_ThresholdAndNeeded ==
    ("unlock" \in DOMAIN ret) =>
        LET total == Len(arg)
            met == ret.unlock.threshold_met
            stats == ret.unlock.stats
        IN  /\ met <=> (total = 0 \/ 2 * ValidGoals >= total)
            /\ stats.threshold_met = met
            /\ total >= 1 =>
                  /\ stats.needed = 0 <=> met
                  /\ ~met =>
                        /\ 2 * (ValidGoals + stats.needed) >= total
                        /\ 2 * (ValidGoals + stats.needed - 1) < total

\* ======================================================= missing rubric
\* C26: a finished graph run whose run_basic_review found no rubric returned and
\* saved "No rubric available for detailed review." and recorded no error.
C26_NoRubricContentKept ==
    (/\ pc = "done"
     /\ call.rubric # "rubric"
     /\ "run_basic_review" \in Range(trace)
     /\ result.status = "returned") =>
        /\ result.value.content = NO_RUBRIC_CONTENT
        /\ state.final_content = NO_RUBRIC_CONTENT
        /\ state.errors = <<>>

\* ================================================== interleaved saves
\* C25: when a save commits a record that its lookup created although a row for
\* the submission was committed in between, the submission still has exactly
\* one row and that row holds the content of this save (the collision is an
\* update of the row, not a failed save).
C25_InterleavedSavesUpsert ==
    [][(/\ op' = "commit"
        /\ arg'.held.created_new
        /\ AIRowsFor(ai_feedbacks, arg'.held.ai_feedback.submission_id) # {}) =>
           LET rows == AIRowsFor(ai_feedbacks', arg'.held.ai_feedback.submission_id)
           IN  /\ Cardinality(rows) = 1
               /\ \A r \in rows : r.content = arg'.content]_vars

\* =================================================== submission status
\* One submission is followed from its creation: arg is its row with what hangs
\* on it (exists is false until create_submission has added it) and progresses,
\* what the GoalProgress queries find for its owner, one entry per core goal of
\* its learning goal; op is the last route called and ret its request.
MaxOwnerGoals == 3

\* current_user: two students and an instructor
SubmissionUsers == {"student", "other_student", "instructor"}

\* request_instructor_feedback without the engagement check
request_instructor_feedback_no_threshold(db, user, force_skip) ==
    IF ~db.exists \/ db.user_id # user THEN db
    ELSE IF db.status \notin {"ai_complete", "feedback_requested"} THEN db
    ELSE [db EXCEPT !.status = "feedback_requested"]

\* routes.submissions.request_instructor_feedback
request_instructor_feedback(db, user, force_skip) ==
    IF ~db.exists \/ db.user_id # user THEN db
    ELSE IF db.status \notin {"ai_complete", "feedback_requested"} THEN db
    ELSE IF ~check_instructor_unlock_threshold(db.progresses).threshold_met /\ ~force_skip
         THEN db
         ELSE [db EXCEPT !.status = "feedback_requested"]

InitSubmissions ==
    /\ ReviewIdle
    /\ op = "none"
    /\ ret = [n \in {} |-> 0]
    /\ \E n \in 0..MaxOwnerGoals :
         \E progresses \in [1..n -> {NoProgress,
                 [found |-> TRUE, status |-> "in_progress", is_expired |-> FALSE],
                 [found |-> TRUE, status |-> "engaged", is_expired |-> FALSE],
                 [found |-> TRUE, status |-> "passed", is_expired |-> TRUE]}] :
           arg = [exists |-> FALSE, user_id |-> "student", status |-> "pending",
                  ai_feedback |-> FALSE, instructor_feedback |-> FALSE,
                  progresses |-> progresses]

\* POST /submissions/create: a rejected form or pull request adds nothing; else
\* the row is committed as 'pending' and, when the diff was fetched and the
\* review returned, the feedback is saved and the status is 'ai_complete'
CreateSubmission ==
    /\ ~arg.exists
    /\ \E user \in SubmissionUsers, outcome \in {"invalid", "no_diff", "raises", "ok"} :
         /\ ret' = [user |-> user, outcome |-> outcome]
         /\ arg' = CASE outcome = "invalid" -> arg
                     [] outcome \in {"no_diff", "raises"} ->
                          [arg EXCEPT !.exists = TRUE, !.user_id = user]
                     [] outcome = "ok" ->
                          [arg EXCEPT !.exists = TRUE, !.user_id = user,
                                      !.ai_feedback = TRUE, !.status = "ai_complete"]
    /\ op' = "create_submission"
    /\ UNCHANGED review_vars

\* GET /submissions/<id>/progress-stream: 404, 403, the immediate 'complete'
\* event, or the generator, which saves the result and sets 'ai_complete' unless
\* the diff is missing, a step raises or the client stops reading
StreamAnalysisProgress ==
    /\ \E user \in SubmissionUsers, outcome \in {"no_diff", "raises", "closed", "result"} :
         /\ ret' = [user |-> user, outcome |-> outcome]
         /\ arg' = IF ~arg.exists THEN arg
                   ELSE IF arg.user_id # user /\ user # "instructor" THEN arg
                   ELSE IF arg.status = "ai_complete" /\ arg.ai_feedback THEN arg
                   ELSE IF outcome = "result"
                        THEN [arg EXCEPT !.ai_feedback = TRUE, !.status = "ai_complete"]
                        ELSE arg
    /\ op' = "stream_analysis_progress"
    /\ UNCHANGED review_vars

\* POST /submissions/<id>/request-feedback
RequestInstructorFeedback ==
    /\ \E user \in SubmissionUsers, force_skip \in BOOLEAN :
         /\ ret' = [user |-> user, force_skip |-> force_skip]
         /\ arg' = request_instructor_feedback(arg, user, force_skip)
    /\ op' = "request_instructor_feedback"
    /\ UNCHANGED review_vars

\* /admin/submissions/<id>/review behind require_instructor: a POST writes the
\* instructor's feedback and sets 'reviewed'; a GET shows the page
ReviewSubmission ==
    /\ \E user \in SubmissionUsers, method \in {"GET", "POST"} :
         /\ ret' = [user |-> user, method |-> method]
         /\ arg' = IF arg.exists /\ user = "instructor" /\ method = "POST"
                   THEN [arg EXCEPT !.instructor_feedback = TRUE, !.status = "reviewed"]
                   ELSE arg
    /\ op' = "review_submission"
    /\ UNCHANGED review_vars

NextSubmissions ==
    \/ CreateSubmission
    \/ StreamAnalysisProgress
    \/ RequestInstructorFeedback
    \/ ReviewSubmission

SpecSubmissions == InitSubmissions /\ [][NextSubmissions]_vars

\* the owner's core goals with 'passed' or 'engaged' progress that has not expired
OwnerValidGoals ==
    Cardinality({i \in 1..Len(arg.progresses) :
                    /\ arg.progresses[i].found
                    /\ arg.progresses[i].status \in {"passed", "engaged"}
                    /\ ~arg.progresses[i].is_expired})

\* C22: a request-feedback call sets the status to 'feedback_requested' when the
\* requester owns the submission, the status is 'ai_complete' or
\* 'feedback_requested' and at least half of the core goals are valid or
\* force_skip is given; every other call leaves the status as it was.
C22_RequestFeedbackGuards ==
    [][op' = "request_instructor_feedback" =>
         IF /\ arg.exists
            /\ ret'.user = arg.user_id
            /\ arg.status \in {"ai_complete", "feedback_requested"}
            /\ \/ 2 * OwnerValidGoals >= Len(arg.progresses)
               \/ ret'.force_skip
         THEN arg'.status = "feedback_requested"
         ELSE arg'.status = arg.status]_vars

\* C22 witness: the owner, below the threshold and without force_skip, was
\* refused, and the submission stayed 'ai_complete'.
C22_Witness ==
    /\ op = "request_instructor_feedback"
    /\ arg.exists
    /\ ret.user = arg.user_id
    /\ ~ret.force_skip
    /\ 2 * OwnerValidGoals < Len(arg.progresses)
    /\ arg.status = "ai_complete"

StatusRank(status) ==
    CASE status = "pending" -> 0
      [] status = "ai_complete" -> 1
      [] status = "feedback_requested" -> 2
      [] status = "reviewed" -> 3

\* C29: no request moves a submission's status backwards in the order pending,
\* ai_complete, feedback_requested, reviewed.
C29_StatusOnlyForward ==
    [][arg.exists => StatusRank(arg'.status) >= StatusRank(arg.status)]_vars

\* ==================================================== Socratic harness
\* One user's harness sessions on one learning goal.  arg is the database:
\*   goals          per core goal (numbered from 1, the number is its id), the
\*                  number of items of its rubric
\*   progress       per core goal the status of the user's GoalProgress, "none"
\*                  while there is no row
\*   rubric_results per core goal and rubric item "none", "passed" or "engaged"
\* and the fields of the user's AgentSession (status "none" before it is
\* started).  current_goal_index and core_goal_id are 0 for None and else the
\* goal's number (the source's index plus one); current_rubric_item_index is
\* the source's index.  messages holds, for the last FRUSTRATION_WINDOW stored
\* messages of the session, whether the text contains a frustration signal;
\* sent counts the session's user messages.  guided_answers counts the plain
\* answers of a session that began with "guide me" and has had only plain
\* answers since, and is -1 in any other session and once the all-complete
\* response was given.  No certification expires while the sessions run.
\* op is the last operation and ret its input and result.
MaxGoals == 2
MaxRubricItems == 2
MaxUserMessages == 4

MAX_ATTEMPTS == 3
FRUSTRATION_WINDOW == 5

\* the result dict: the response's kind and the flags the callers read
HarnessResult(response) ==
    [response |-> response, frustration_detected |-> FALSE, topic_ended |-> FALSE,
     topic_status |-> "None", gem_status |-> "None", all_complete |-> FALSE]

\* SocraticHarnessBase.store_message
store_message(db, signal) ==
    LET all == Append(db.messages, signal)
    IN  [db EXCEPT !.messages = IF Len(all) > FRUSTRATION_WINDOW THEN Tail(all) ELSE all]

\* SocraticHarnessBase.detect_frustration over the contents of the session's
\* messages, the user's and the assistant's
detect_frustration(messages) ==
    \E i \in 1..Len(messages) : i > Len(messages) - FRUSTRATION_WINDOW /\ messages[i]

\* parse_topic_selection: a message that is, or begins with, the number of a goal
parse_topic_selection(msg, learning_goals) ==
    IF msg.text = "number" /\ msg.number \in 1..Len(learning_goals) THEN msg.number ELSE 0

\* SocraticHarnessBase.update_gem_state (get_or_create_progress adds a 'locked'
\* row when there is none)
update_gem_state(db, core_goal_id, status) ==
    IF status \in {"passed", "engaged", "in_progress"}
    THEN [db EXCEPT !.progress[core_goal_id] = status]
    ELSE [db EXCEPT !.progress[core_goal_id] = IF @ = "none" THEN "locked" ELSE @]

\* SocraticHarnessBase.recommend_next_goal
recommend_next_goal(db) ==
    IF \E i \in 1..Len(db.goals) : db.progress[i] \in {"none", "locked"}
    THEN CHOOSE i \in 1..Len(db.goals) :
             /\ db.progress[i] \in {"none", "locked"}
             /\ \A j \in 1..(i - 1) : db.progress[j] \notin {"none", "locked"}
    ELSE 0

all_goals_completed(db) ==
    [db |-> store_message(db, FALSE),
     result |-> [HarnessResult("all_complete") EXCEPT !.all_complete = TRUE]]

\* ArticulationHarness._focus_on_goal
focus_on_goal(db, goal_index) ==
    LET d1 == [db EXCEPT !.current_goal_index = goal_index,
                         !.current_rubric_item_index = 0,
                         !.current_attempts = 0,
                         !.core_goal_id = IF @ = 0 THEN goal_index ELSE @]
        d2 == update_gem_state(d1, goal_index, "in_progress")
    IN  [db |-> store_message(d2, FALSE), result |-> HarnessResult("focus")]

\* the topic is ended but recorded as 'passed'
handle_frustration_marks_passed(db) ==
    LET d1 == update_gem_state(db, db.current_goal_index, "passed")
        d2 == store_message(d1, TRUE)
    IN  [db |-> [d2 EXCEPT !.current_goal_index = 0,
                           !.current_rubric_item_index = 0,
                           !.current_attempts = 0],
         result |-> [HarnessResult("frustration") EXCEPT
                        !.frustration_detected = TRUE, !.topic_ended = TRUE,
                        !.topic_status = "engaged"]]

\* ArticulationHarness._handle_frustration_and_end_topic; the response that
\* names the topic says "Let's move on."
handle_frustration_and_end_topic(db) ==
    LET current_goal == db.current_goal_index # 0 /\ db.current_goal_index <= Len(db.goals)
        d1 == IF current_goal
              THEN update_gem_state(db, db.current_goal_index, "engaged") ELSE db
        d2 == store_message(d1, current_goal)
    IN  [db |-> [d2 EXCEPT !.current_goal_index = 0,
                           !.current_rubric_item_index = 0,
                           !.current_attempts = 0],
         result |-> [HarnessResult("frustration") EXCEPT
                        !.frustration_detected = TRUE, !.topic_ended = TRUE,
                        !.topic_status = "engaged"]]

\* ArticulationHarness._goal_completed; in guide-me mode the response that
\* introduces the next goal says "Let's move on to ..."
goal_completed(db, status) ==
    LET d1 == update_gem_state(db, db.current_goal_index, status)
        next_index == recommend_next_goal(d1)
        completed == [HarnessResult("goal_completed") EXCEPT !.gem_status = status]
    IN  IF d1.guide_me_mode
        THEN IF next_index # 0
             THEN LET d2 == [d1 EXCEPT !.current_goal_index = next_index,
                                       !.current_rubric_item_index = 0,
                                       !.current_attempts = 0]
                      d3 == update_gem_state(d2, next_index, "in_progress")
                  IN  [db |-> store_message(d3, TRUE), result |-> completed]
             ELSE all_goals_completed(d1)
        ELSE [db |-> [store_message(d1, FALSE) EXCEPT !.current_goal_index = 0],
              result |-> completed]

\* ArticulationHarness._evaluate_articulation; passed is evaluate_rubric_item's
\* verdict on the answer
evaluate_articulation(db, passed) ==
    LET g == db.current_goal_index
        rubric_items == db.goals[g]
        current_item_index == db.current_rubric_item_index
        d1 == [db EXCEPT !.current_attempts = @ + 1]
        advance(status) ==
            [d1 EXCEPT !.rubric_results[g][current_item_index + 1] = status,
                       !.current_rubric_item_index = current_item_index + 1,
                       !.current_attempts = 0]
    IN  IF rubric_items = 0 THEN goal_completed(db, "engaged")
        ELSE IF current_item_index >= rubric_items THEN goal_completed(db, "passed")
        ELSE IF passed
             THEN IF current_item_index + 1 >= rubric_items
                  THEN goal_completed(advance("passed"), "passed")
                  ELSE [db |-> store_message(advance("passed"), FALSE),
                        result |-> HarnessResult("probe_next_item")]
        ELSE IF d1.current_attempts >= MAX_ATTEMPTS
             THEN IF current_item_index + 1 >= rubric_items
                  THEN goal_completed(advance("engaged"), "engaged")
                  ELSE [db |-> store_message(advance("engaged"), FALSE),
                        result |-> HarnessResult("acknowledge_and_continue")]
        ELSE [db |-> store_message(d1, FALSE), result |-> HarnessResult("hint")]

\* The language model's part in a message is llm: the verdict of
\* evaluate_rubric_item (not passed when the model is unavailable) and whether
\* the reply to a message outside a topic contains a frustration signal; a
\* message uses one of the two.  _generate_articulation_response and
\* _generate_planning_response: no reply without an API key or on an error.
generate_response(db, llm) ==
    IF llm.verdict = "unavailable"
    THEN [db |-> db, result |-> HarnessResult("error")]
    ELSE [db |-> store_message(db, llm.reply_signal), result |-> HarnessResult("general")]

\* ArticulationHarness.process_message
articulation_process_message(db, msg, llm) ==
    LET d0 == [store_message(db, msg.signal) EXCEPT !.sent = @ + 1]
        is_frustrated == d0.current_goal_index # 0 /\ detect_frustration(d0.messages)
        guided == [d0 EXCEPT !.guide_me_mode = TRUE]
        selected_index == parse_topic_selection(msg, d0.goals)
    IN  IF is_frustrated THEN handle_frustration_and_end_topic(d0)
        ELSE IF msg.text = "guide me"
             THEN IF recommend_next_goal(guided) = 0
                  THEN all_goals_completed(guided)
                  ELSE focus_on_goal(guided, recommend_next_goal(guided))
        ELSE IF msg.text = "suggest"
             THEN IF recommend_next_goal(d0) = 0
                  THEN all_goals_completed(d0)
                  ELSE focus_on_goal(d0, recommend_next_goal(d0))
        ELSE IF selected_index # 0 THEN focus_on_goal(d0, selected_index)
        ELSE IF d0.current_goal_index # 0
             THEN evaluate_articulation(d0, llm.verdict = "passed")
        ELSE generate_response(d0, llm)

\* PlanningHarness.evaluate_plan_coverage: get_or_create_progress adds a 'locked'
\* row for every core goal that has none
evaluate_plan_coverage(db) ==
    [db EXCEPT !.progress = [g \in DOMAIN @ |-> IF @[g] = "none" THEN "locked" ELSE @[g]]]

\* PlanningHarness.process_message with _start_guided_planning and
\* _focus_on_goal; the plan it also updates is not part of the database here
planning_process_message(db, msg, llm) ==
    LET d0 == [store_message(db, msg.signal) EXCEPT !.sent = @ + 1]
        selected_index == parse_topic_selection(msg, d0.goals)
        reply == generate_response(d0, llm)
    IN  IF msg.text = "guide me"
        THEN [db |-> evaluate_plan_coverage(
                        store_message([d0 EXCEPT !.guide_me_mode = TRUE,
                                                 !.current_goal_index = 1], FALSE)),
              result |-> HarnessResult("guided_planning")]
        ELSE IF selected_index # 0
             THEN [db |-> evaluate_plan_coverage(
                             store_message([d0 EXCEPT !.current_goal_index = selected_index],
                                           FALSE)),
                   result |-> HarnessResult("focus")]
        ELSE IF llm.verdict = "unavailable" THEN reply
        ELSE [db |-> evaluate_plan_coverage(reply.db), result |-> reply.result]

InitHarness ==
    /\ ReviewIdle
    /\ op = "none"
    /\ ret = [input |-> [text |-> "None", number |-> 0, signal |-> FALSE], result |-> HarnessResult("None")]
    /\ \E n \in 1..MaxGoals :
         \E goals \in [1..n -> 0..MaxRubricItems] :
           arg = [goals |-> goals,
                  progress |-> [g \in 1..n |-> "none"],
                  rubric_results |-> [g \in 1..n |-> [i \in 1..goals[g] |-> "none"]],
                  harness_type |-> "None", status |-> "none",
                  guide_me_mode |-> FALSE, core_goal_id |-> 0,
                  current_goal_index |-> 0, current_rubric_item_index |-> 0,
                  current_attempts |-> 0, messages |-> <<>>, sent |-> 0,
                  guided_answers |-> -1]

\* start_session: the AgentSession is created; the articulation harness focuses
\* at once on focus_goal_id when it is given and else stores its welcome
\* message, as the planning harness does
StartSession ==
    /\ arg.status = "none"
    /\ \E harness_type \in {"planning", "articulation"}, focus_goal_id \in 0..Len(arg.goals) :
         LET session == [arg EXCEPT !.harness_type = harness_type, !.status = "active"]
             started == IF harness_type = "articulation" /\ focus_goal_id # 0
                        THEN focus_on_goal(session, focus_goal_id)
                        ELSE [db |-> store_message(session, FALSE),
                              result |-> HarnessResult("welcome")]
         IN  /\ harness_type = "planning" => focus_goal_id = 0
             /\ arg' = started.db
             /\ ret' = [input |-> [text |-> "None", number |-> focus_goal_id, signal |-> FALSE],
                        result |-> started.result]
    /\ op' = "start_session"
    /\ UNCHANGED review_vars

\* the user sends "guide me", "suggest", a number, or another text (an answer),
\* which may carry a frustration signal; they send nothing to a session they
\* have ended
ProcessMessage ==
    /\ arg.status = "active"
    /\ arg.sent < MaxUserMessages
    /\ \E msg \in [text : {"guide me", "suggest"}, number : {0}, signal : {FALSE}]
                  \cup [text : {"number"}, number : 1..Len(arg.goals), signal : {FALSE}]
                  \cup [text : {"answer"}, number : {0}, signal : BOOLEAN] :
       \E llm \in IF msg.text = "guide me" \/ parse_topic_selection(msg, arg.goals) # 0
                  THEN {[verdict |-> "unavailable", reply_signal |-> FALSE]}
                  ELSE {[verdict |-> "unavailable", reply_signal |-> FALSE],
                        [verdict |-> "passed", reply_signal |-> FALSE],
                        [verdict |-> "failed", reply_signal |-> TRUE]} :
         LET done == IF arg.harness_type = "articulation"
                     THEN articulation_process_message(arg, msg, llm)
                     ELSE planning_process_message(arg, msg, llm)
             counted == IF arg.harness_type # "articulation" \/ done.result.all_complete
                        THEN -1
                        ELSE IF msg.text = "guide me" /\ arg.sent = 0 /\ arg.current_goal_index = 0
                        THEN 0
                        ELSE IF msg.text = "answer" /\ ~msg.signal /\ arg.guided_answers >= 0
                        THEN arg.guided_answers + 1
                        ELSE -1
         IN  /\ arg' = [done.db EXCEPT !.guided_answers = counted]
             /\ ret' = [input |-> msg, result |-> done.result]
    /\ op' = "process_message"
    /\ UNCHANGED review_vars

\* end_session; the planning harness reports the plan's coverage
EndSession ==
    /\ arg.status = "active"
    /\ arg' = IF arg.harness_type = "planning"
              THEN evaluate_plan_coverage([arg EXCEPT !.status = "completed"])
              ELSE [arg EXCEPT !.status = "completed"]
    /\ ret' = [input |-> [text |-> "None", number |-> 0, signal |-> FALSE],
               result |-> HarnessResult("end_session")]
    /\ op' = "end_session"
    /\ UNCHANGED review_vars

NextHarness ==
    \/ StartSession
    \/ ProcessMessage
    \/ EndSession

SpecHarness == InitHarness /\ [][NextHarness]_vars

\* a frustration signal is among the last FRUSTRATION_WINDOW messages once the
\* message sent in this step is stored
SignalInWindow ==
    \/ ret'.input.signal
    \/ \E i \in 1..Len(arg.messages) :
          i > Len(arg.messages) - (FRUSTRATION_WINDOW - 1) /\ arg.messages[i]

\* C21: when the articulation harness processes a message while a topic is
\* active and frustration is detected, the topic's progress becomes 'engaged',
\* the result says frustration_detected, topic_ended and topic_status
\* 'engaged', and the session has no current goal, rubric item 0 and 0 attempts.
C21_FrustrationEndsTopic ==
    [][(/\ op' = "process_message"
        /\ arg.harness_type = "articulation"
        /\ arg.current_goal_index # 0
        /\ SignalInWindow) =>
           /\ arg'.progress[arg.current_goal_index] = "engaged"
           /\ ret'.result.frustration_detected
           /\ ret'.result.topic_ended
           /\ ret'.result.topic_status = "engaged"
           /\ arg'.current_goal_index = 0
           /\ arg'.current_rubric_item_index = 0
           /\ arg'.current_attempts = 0]_vars

\* C21 witness: a message with a signal ended the topic the user was on after a
\* failed attempt; the topic is 'engaged' and the session has no topic.
C21_Witness ==
    /\ op = "process_message"
    /\ arg.harness_type = "articulation"
    /\ ret.input.signal
    /\ ret.result.frustration_detected
    /\ ret.result.topic_status = "engaged"
    /\ arg.current_goal_index = 0
    /\ arg.current_attempts = 0
    /\ arg.sent >= 2
    /\ \E g \in 1..Len(arg.goals) : arg.progress[g] = "engaged"

\* C23: a session that has a current topic has a core_goal_id; core_goal_id is
\* set to the topic focused while it was null; and once set it does not change.
C23_CoreGoalIsFirstFocused ==
    /\ []((arg.status # "none" /\ arg.current_goal_index # 0) => arg.core_goal_id # 0)
    /\ [][(arg.core_goal_id = 0 /\ arg'.current_goal_index # 0) =>
             arg'.core_goal_id = arg'.current_goal_index]_vars
    /\ [][arg.core_goal_id # 0 => arg'.core_goal_id = arg.core_goal_id]_vars

\* C24: a step that records a goal as 'passed' leaves every rubric item of the
\* goal with the result 'passed' (none 'engaged', none unevaluated).
C24_PassedOnlyIfAllItemsPassed ==
    [][\A g \in 1..Len(arg.goals) :
          (arg'.progress[g] = "passed" /\ arg.progress[g] # "passed") =>
              \A i \in 1..arg.goals[g] : arg'.rubric_results[g][i] = "passed"]_vars

\* C27: a processed message that carries no frustration signal is not handled
\* as frustration.
C27_FrustrationOnlyFromSignalMessage ==
    [][(op' = "process_message" /\ ~ret'.input.signal) =>
           ~ret'.result.frustration_detected]_vars

\* C28: a goal whose progress is 'passed' stays 'passed' in every step.
C28_PassedStaysPassed ==
    [][\A g \in 1..Len(arg.goals) :
          arg.progress[g] = "passed" => arg'.progress[g] = "passed"]_vars

RECURSIVE AnswerBound(_)
AnswerBound(goals) ==
    IF goals = <<>> THEN 0
    ELSE (IF Head(goals) = 0 THEN 1 ELSE MAX_ATTEMPTS * Head(goals))
         + AnswerBound(Tail(goals))

\* C30: a session that began with "guide me" and has had only plain answers
\* since gets the all-complete response by the time the answers number three
\* per rubric item plus one per goal without items, and current_attempts never
\* exceeds 3.
C30_GuidedRunBounded ==
    /\ arg.guided_answers < AnswerBound(arg.goals)
    /\ arg.current_attempts <= MAX_ATTEMPTS

====
